---------------------------- MODULE Spec2Model ----------------------------
(***************************************************************************)
(* Verification model of the Fluidity firmware (utakotoba/Fluidity).       *)
(*                                                                         *)
(* Part I   TcpServer reactor (Firmware/main/tcp_server.cpp)               *)
(* Part II  USB/IP session engine (usbip_defs.hpp, usbip_controller.hpp)   *)
(* Part III Wi-Fi controller, Part IV NVS manager, Part V wire codec       *)
(* Part VI  telnet console (telnet_server.cpp)                             *)
(* Part VII UsbCdcManager (Firmware/main/usb_cdc_manager.cpp)              *)
(*                                                                         *)
(* Every part has its own Init/Next/specification over its own variables   *)
(* and leaves the variables of the other parts unchanged.                  *)
(***************************************************************************)
EXTENDS Integers, Sequences, FiniteSets, TLC

(***************************************************************************)
(* Part I: TcpServer                                                       *)
(***************************************************************************)

\* Program constants.  The source values are given in the comments; the
\* model uses proportionally smaller values so that every boundary case
\* (full table, idle longer than the timeout, oversized reply) is reached in
\* a finite state space.  No formula below depends on the concrete value.
\* tcp_server.hpp:8   #define MAX_CLIENTS 64
MAX_CLIENTS == 2
\* tcp_server.hpp:51  uint32_t client_timeout_seconds_{60}
client_timeout_seconds_ == 2
\* tcp_server.hpp:52  uint32_t cleanup_interval_seconds_{10}
cleanup_interval_seconds_ == 1
\* tcp_server.hpp:53  size_t buffer_size_{1536}; recv reads buffer_size_ - 1
buffer_size_ == 3
\* tcp_server.cpp:210 const size_t max_response_size = 1024 * 64
max_response_size == 2

\* Bounds of the model.
\* accepted sockets over one run (socket descriptors are 1..MaxConn)
MaxConn == 3
\* wall clock values are 0..MaxTime
MaxTime == 3
\* bytes the peer of the observed connection sends
MaxStream == 2
\* reply bytes the handler produces for the observed connection
MaxReply == 3

\* Bounds of the session engine model.
\* connections, each with one Session
NumSessions == 2
\* seq_num values a client uses
MaxSeq == 2
\* messages the Sessions read over one run
MaxMsgs == 4


VARIABLES
  clients_,        \* std::vector<client_info_t>: <<[sock, active, last_activity]>>
  on_connect_handler_,     \* TRUE when a connect callback is installed
  on_disconnect_handler_,  \* TRUE when a disconnect callback is installed
  pc,              \* position of the reactor task in handle_clients
  now,             \* time(NULL)
  last_cleanup,    \* local of handle_clients
  listen_ready,    \* FD_ISSET(listen_sock, &read_fds) after select
  read_fds,        \* sockets of clients select reported readable
  idx,             \* position of the "for (auto& client : clients_)" loop
  next_sock,       \* next descriptor accept() hands out
  open_socks,      \* descriptors accepted and not yet close()d
  connect_calls,   \* sockets on_connect_handler_ was invoked with
  disconnect_calls,\* disconnect_calls[s]: on_disconnect_handler_(s) invocations
  rejected,        \* sockets closed by handle_new_connection for lack of a slot
  tracked,         \* the socket whose byte streams are recorded (0: none)
  dispatched,      \* the buffers passed to message_handler_ for tracked
  produced,        \* reply bytes the handler returned for tracked, in order
  wire,            \* reply bytes send() has transmitted on tracked, in order
  last_op          \* the last step and the results its system calls gave

tcpVars == <<clients_, on_connect_handler_, on_disconnect_handler_, pc, now,
             last_cleanup, listen_ready, read_fds, idx, next_sock, open_socks,
             connect_calls, disconnect_calls, rejected, tracked, dispatched,
             produced, wire, last_op>>

VARIABLES
  sess_state,    \* sess_state[c]: "Negotiating", "Attached" or "Closed"
  sess_device,   \* sess_device[c]: bus_id of the attached Device, or "none"
  pending,       \* pending[c]: the PendingUrb records of Session c
  attach_owner,  \* attach_owner[b]: Session holding Device b, 0 when free
  executing,     \* submissions the Device has accepted and not completed
  completions,   \* completion queue from the executor to the reactor
  emitted,       \* the replies the last step has put on the wire
  returned,      \* returned[c][n]: RET_SUBMIT with seq_num n emitted
  msgs,          \* messages the Sessions have read
  accepted,      \* accepted[c][n]: CMD_SUBMIT with seq_num n accepted
  cancelled,     \* cancelled[c][n]: submissions n cancelled by CMD_UNLINK
  last_ev        \* the last step: the message read or the event handled

sessVars == <<sess_state, sess_device, pending, attach_owner, executing,
              completions, emitted, returned, msgs, accepted, cancelled,
              last_ev>>

\* wifi_controller::Controller, app_main and the server app_main starts
VARIABLES
  w_pc,               \* position of app_main
  credentials,        \* the ssid / password launch() is called with
  connection_state_,  \* std::atomic<ConnectionState>
  last_error_,        \* std::atomic<ConnectionError>
  retry_num_,         \* size_t
  ip_address_,        \* "null" or the address string
  event_bits,         \* bits set in wifi_event_group_
  init_ret,           \* what init_sta has returned, "none" before
  radio,              \* the Wi-Fi driver: "off", "starting", "attempt",
                      \* "up" (associated, address acquired) or "down"
  srv_listening,      \* the server task launched by app_main is accepting
  srv_sessions,       \* connections that server holds
  last_wev            \* the last step of this part

wifiVars == <<w_pc, credentials, connection_state_, last_error_, retry_num_,
              ip_address_, event_bits, init_ret, radio, srv_listening,
              srv_sessions, last_wev>>

\* nvs_factory::Factory and the threads that call it
VARIABLES
  init_flag_,      \* std::once_flag: "fresh", "running" or "done"
  deinit_flag_,    \* std::once_flag: "fresh", "running" or "done"
  init_result_,    \* std::atomic<esp_err_t>
  deinitialized_,  \* std::atomic<bool>
  flash,           \* TRUE while the NVS flash partition is initialized
  attempts,        \* the result of each run of the initialization sequence
  th_pc,           \* th_pc[t]: position of thread t
  th_ret,          \* th_ret[t]: local "ret" of thread t
  nvs_calls,       \* calls started so far
  nvs_last         \* the call that returned last, and what held on return

nvsVars == <<init_flag_, deinit_flag_, init_result_, deinitialized_, flash,
             attempts, th_pc, th_ret, nvs_calls, nvs_last>>

\* the Wire Codec applied to one message
VARIABLES
  cdc_msg,    \* the Message given to encode
  cdc_bytes,  \* the byte stream encode has produced, and what follows it
  cdc_out,    \* what decode has returned
  cdc_pc      \* "start", "encoded" or "decoded"

codecVars == <<cdc_msg, cdc_bytes, cdc_out, cdc_pc>>

\* the telnet console and the UsbCdcManager it drives: "nullptr" while
\* neither exists, else a record of
\*   telnet      g_server_instance and the fields of the TelnetServer
\*   tn_clients  clients_: per slot the ClientInfo, its socket and its task
\*   tn_last     the operation that ran last and what it returned
\*   usb         the UsbCdcManager, its usb_lib task, the position of init()
\*   usb_last    the UsbCdcManager call that ran last and what it returned
VARIABLES
  console

consoleVars == <<console>>

telnet == console.telnet
tn_clients == console.tn_clients
tn_last == console.tn_last
usb == console.usb
usb_last == console.usb_last

nonTcpVars == <<sessVars, wifiVars, nvsVars, codecVars, consoleVars>>

nonSessVars == <<tcpVars, wifiVars, nvsVars, codecVars, consoleVars>>

vars == <<tcpVars, sessVars, wifiVars, nvsVars, codecVars, consoleVars>>

Socks == 1..MaxConn

\* The bytes of a stream are numbered from 1, so that a dropped, duplicated
\* or reordered byte is visible in the sequence.
Range(a, b) == [k \in 1..(b - a + 1) |-> a + k - 1]

IsPrefix(s, t) == Len(s) <= Len(t) /\ \A k \in 1..Len(s) : s[k] = t[k]

Flatten(ss) ==
  LET RECURSIVE F(_)
      F(n) == IF n = 0 THEN <<>> ELSE F(n - 1) \o ss[n]
  IN F(Len(ss))

ActiveSlots == {i \in 1..Len(clients_) : clients_[i].active}

NoOp == [op |-> "none", sock |-> 0]


Sessions == 1..NumSessions
SeqNums == 1..MaxSeq

\* seq_num values a client gives its CMD_UNLINK messages
UnlinkSeqNums == {MaxSeq + 1}

\* bus ids the Provider resolves, and one it does not
KnownBusIds == {"1-1"}
BusIds == KnownBusIds \cup {"9-9"}

\* usbip_defs.hpp: the endpoint the submissions of the model address
Endpoints == {1}

\* usbip_defs.hpp: op_status
OK == 0
ERROR == 1

\* The hardware status code a completion carries (-EPIPE).
HwStatuses == {-32}

NoEv == [ev |-> "none", sess |-> 0]

\* WIFI_MAXIMUM_RETRY, scaled from 5
WIFI_MAXIMUM_RETRY == 2

\* threads that call the Factory
NumThreads == 2
\* calls of initialize() and deinitialize() over one run
MaxCalls == 4
\* connections the server started by app_main holds at a time
MaxSrvSessions == 1

Threads == 1..NumThreads

NoWev == [ev |-> "none"]

\* Controller() = default, before app_main has called launch().
WifiIdle ==
  /\ w_pc = "boot"
  /\ credentials = "valid"
  /\ connection_state_ = "DISCONNECTED"
  /\ last_error_ = "NONE"
  /\ retry_num_ = 0
  /\ ip_address_ = "null"
  /\ event_bits = {}
  /\ init_ret = "none"
  /\ radio = "off"
  /\ srv_listening = FALSE
  /\ srv_sessions = 0
  /\ last_wev = NoWev

NoCall == [op |-> "none", thread |-> 0]

\* Factory() = default.
NvsIdle ==
  /\ init_flag_ = "fresh"
  /\ deinit_flag_ = "fresh"
  /\ init_result_ = "ESP_ERR_INVALID_STATE"
  /\ deinitialized_ = FALSE
  /\ flash = FALSE
  /\ attempts = <<>>
  /\ th_pc = [t \in Threads |-> "idle"]
  /\ th_ret = [t \in Threads |-> "ESP_OK"]
  /\ nvs_calls = 0
  /\ nvs_last = NoCall

\* telnet_server.hpp:76  static constexpr const size_t MAX_CLIENTS = 4 (the
\* name MAX_CLIENTS is the TcpServer's above); scaled like the constants of
\* Part I
TELNET_MAX_CLIENTS == 2

\* Bound of the telnet console model.
\* sockets the network stack can have open at once
MaxSockets == 3

Slots == 1..TELNET_MAX_CLIENTS

\* TelnetServer::TelnetServer: every ClientInfo of clients_ after resize.
\* socket_fd is "-1", or a descriptor together with the state of its socket
\* ("open", "closed"); task_handle is "nullptr", or a handle together with
\* the state of its task ("alive", "deleted"); session is the state of the
\* connection the slot was last given to.
FreeSlot ==
  [active |-> FALSE, socket_fd |-> "-1", task_handle |-> "nullptr",
   usb_forwarding_mode |-> FALSE, session |-> "none"]

\* g_server_instance = nullptr.  listening and server_tasks count the
\* listening sockets and server tasks that exist, lost_sockets the open
\* client sockets no ClientInfo refers to; aborted is set when the firmware
\* has been halted.
NoServer ==
  [instance |-> FALSE, running_ |-> FALSE, server_socket_ |-> FALSE,
   server_task_handle_ |-> FALSE, client_count_ |-> 0,
   listening |-> 0, server_tasks |-> 0, lost_sockets |-> 0,
   aborted |-> FALSE]

\* What tn_last holds: the operation, the slot it was about (0: none), what
\* it returned, the lines received, the lines handed to the USB device,
\* whether the client was in forwarding mode when the data arrived, and the
\* client count before the operation.
TelnetOp(op, slot, ret, data, sent, forwarding, count) ==
  [op |-> op, slot |-> slot, ret |-> ret, data |-> data, sent |-> sent,
   forwarding |-> forwarding, count |-> count]

NoTelnetOp == TelnetOp("none", 0, "none", <<>>, <<>>, FALSE, 0)

\* UsbCdcManager::UsbCdcManager.  usb_lib_task_handle_ is "nullptr", or a
\* handle together with the state of its task: "ready" (created, not yet
\* run), "looping" (inside the while loop) or "ended" (has deleted itself).
\* i_pc is the position of the thread inside init().
NoManager ==
  [initialized_ |-> FALSE, device_open_ |-> FALSE, cdc_device_ |-> FALSE,
   usb_lib_task_handle_ |-> "nullptr", data_callback_ |-> FALSE,
   host_installed |-> FALSE, i_pc |-> "idle", aborted |-> FALSE]

\* What usb_last holds: the call, what it returned, and whether the call
\* reached the CDC-ACM driver (cdc_acm_host_open, cdc_acm_host_data_tx_blocking).
UsbCall(op, ret, driver) == [op |-> op, ret |-> ret, driver |-> driver]

NoUsbCall == UsbCall("none", "none", FALSE)

\* No telnet server has been launched, no UsbCdcManager call was made.
ConsoleStart ==
  console = [telnet |-> NoServer,
             tn_clients |-> [i \in Slots |-> FreeSlot],
             tn_last |-> NoTelnetOp,
             usb |-> NoManager,
             usb_last |-> NoUsbCall]

\* While another part is explored neither a TelnetServer nor a
\* UsbCdcManager exists (g_server_instance and g_manager_instance are
\* nullptr).
ConsoleIdle == console = "nullptr"

\* No message has been given to the codec.
CodecIdle ==
  /\ cdc_msg = [shape |-> "none"]
  /\ cdc_bytes = <<>>
  /\ cdc_out = [result |-> "none"]
  /\ cdc_pc = "idle"

SessIdle ==
  /\ sess_state = [c \in Sessions |-> "Negotiating"]
  /\ sess_device = [c \in Sessions |-> "none"]
  /\ pending = [c \in Sessions |-> {}]
  /\ attach_owner = [b \in KnownBusIds |-> 0]
  /\ executing = {}
  /\ completions = <<>>
  /\ emitted = <<>>
  /\ returned = [c \in Sessions |-> [n \in SeqNums |-> 0]]
  /\ msgs = 0
  /\ accepted = [c \in Sessions |-> [n \in SeqNums |-> 0]]
  /\ cancelled = [c \in Sessions |-> [n \in SeqNums |-> 0]]
  /\ last_ev = NoEv

\* The state of a part while another part is being explored.
TcpIdle ==
  /\ clients_ = <<>>
  /\ on_connect_handler_ = FALSE
  /\ on_disconnect_handler_ = FALSE
  /\ pc = "select"
  /\ now = 0
  /\ last_cleanup = 0
  /\ listen_ready = FALSE
  /\ read_fds = {}
  /\ idx = 1
  /\ next_sock = 1
  /\ open_socks = {}
  /\ connect_calls = {}
  /\ disconnect_calls = [s \in Socks |-> 0]
  /\ rejected = {}
  /\ tracked = 0
  /\ dispatched = <<>>
  /\ produced = <<>>
  /\ wire = <<>>
  /\ last_op = NoOp

TcpInit ==
  /\ clients_ = <<>>
  \* the two callbacks are independent of each other: both installed or
  \* neither shows each of them in both states
  /\ on_connect_handler_ \in BOOLEAN
  /\ on_disconnect_handler_ = on_connect_handler_
  /\ pc = "select"
  /\ now \in 0..1
  /\ last_cleanup = 0
  /\ listen_ready = FALSE
  /\ read_fds = {}
  /\ idx = 1
  /\ next_sock = 1
  /\ open_socks = {}
  /\ connect_calls = {}
  /\ disconnect_calls = [s \in Socks |-> 0]
  /\ rejected = {}
  /\ tracked = 0
  /\ dispatched = <<>>
  /\ produced = <<>>
  /\ wire = <<>>
  /\ last_op = NoOp
  /\ SessIdle
  /\ WifiIdle
  /\ NvsIdle
  /\ CodecIdle
  /\ ConsoleIdle

\* The start of a run of a server whose callbacks were installed before
\* start(), so that every close by the sweep shows its on_disconnect call;
\* the clock is read from the start of the task.
TcpLiveInit ==
  /\ TcpInit
  /\ on_connect_handler_ = TRUE
  /\ now = 0

\* The start of a run in which the byte streams of one connection are
\* recorded.  The clock starts at its last value, so that the run is one
\* within a single second.
TcpDataInit ==
  /\ clients_ = <<>>
  \* the two callbacks are independent of each other: both installed or
  \* neither shows each of them in both states
  /\ on_connect_handler_ \in BOOLEAN
  /\ on_disconnect_handler_ = on_connect_handler_
  /\ pc = "select"
  /\ now = MaxTime
  /\ last_cleanup = 0
  /\ listen_ready = FALSE
  /\ read_fds = {}
  /\ idx = 1
  /\ next_sock = 1
  /\ open_socks = {}
  /\ connect_calls = {}
  /\ disconnect_calls = [s \in Socks |-> 0]
  /\ rejected = {}
  /\ tracked \in Socks
  /\ dispatched = <<>>
  /\ produced = <<>>
  /\ wire = <<>>
  /\ last_op = NoOp
  /\ SessIdle
  /\ WifiIdle
  /\ NvsIdle
  /\ CodecIdle
  /\ ConsoleIdle

Min(a, b) == IF a <= b THEN a ELSE b

\* The "on_disconnect_handler_(sock); close(sock); client.active = false"
\* sequence shared by every closing path of the server.
DisconnectCall(calls, s) ==
  IF on_disconnect_handler_ THEN [calls EXCEPT ![s] = @ + 1] ELSE calls

\* Variant: the close is applied to every slot of the table.
DeactivateAll(cl, i) == [j \in 1..Len(cl) |-> [cl[j] EXCEPT !.active = FALSE]]

Deactivate(cl, i) == [cl EXCEPT ![i].active = FALSE]

\* handle_clients, first half of one iteration: build read_fds from the
\* listening socket and every active client, then select() with a timeout of
\* one second.  With nothing readable select returns only when the second
\* has elapsed; a negative result leaves the loop.
Select ==
  /\ UNCHANGED nonTcpVars
  /\ pc = "select"
  /\ \E err \in BOOLEAN, lr \in BOOLEAN,
        rd \in SUBSET {clients_[i].sock : i \in ActiveSlots},
        d \in 0..1 :
       IF err
       THEN /\ pc' = "exit"
            /\ UNCHANGED <<now, listen_ready, read_fds, idx>>
       ELSE /\ (~lr /\ rd = {}) => d = 1
            /\ now' = Min(now + d, MaxTime)
            /\ listen_ready' = lr
            /\ read_fds' = rd
            /\ idx' = 1
            /\ pc' = IF lr THEN "accept" ELSE "clients"
  /\ last_op' = NoOp
  /\ UNCHANGED <<clients_, on_connect_handler_, on_disconnect_handler_,
                 last_cleanup, next_sock, open_socks, connect_calls,
                 disconnect_calls, rejected, tracked, dispatched, produced,
                 wire>>

\* The slot search of handle_new_connection: the first inactive slot if any.
HasInactive(cl) == \E i \in 1..Len(cl) : ~cl[i].active

FirstInactive(cl) ==
  CHOOSE i \in 1..Len(cl) :
    ~cl[i].active /\ \A j \in 1..(i - 1) : cl[j].active

\* Variant: the table may grow one entry past MAX_CLIENTS.
CanPushBackOffByOne(cl) == Len(cl) <= MAX_CLIENTS

\* "!added && clients_.size() < MAX_CLIENTS"
CanPushBack(cl) == Len(cl) < MAX_CLIENTS

\* clients_ after handle_new_connection has tried to store socket s.
AddClient(cl, s, t) ==
  LET rec == [sock |-> s, active |-> TRUE, last_activity |-> t]
  IN IF HasInactive(cl) THEN [cl EXCEPT ![FirstInactive(cl)] = rec]
     ELSE IF CanPushBack(cl) THEN Append(cl, rec)
     ELSE cl

Added(cl) == HasInactive(cl) \/ CanPushBack(cl)

\* handle_new_connection: accept, set non-blocking, store in a slot or
\* reject.  accept_res is "fail" (accept returned < 0), "nonblock_fail"
\* (set_nonblocking returned < 0) or "ok".
HandleNewConnection ==
  /\ UNCHANGED nonTcpVars
  /\ pc = "accept"
  /\ pc' = "clients"
  /\ \E accept_res \in {"fail", "nonblock_fail", "ok"} :
       \/ /\ accept_res = "fail"
          /\ last_op' = [op |-> "accept", res |-> accept_res, sock |-> 0]
          /\ UNCHANGED <<clients_, next_sock, open_socks, connect_calls,
                         rejected>>
       \/ /\ accept_res = "nonblock_fail"
          /\ next_sock <= MaxConn
          /\ next_sock' = next_sock + 1
          /\ last_op' = [op |-> "accept", res |-> accept_res,
                          sock |-> next_sock]
          /\ UNCHANGED <<clients_, open_socks, connect_calls, rejected>>
       \/ /\ accept_res = "ok"
          /\ next_sock <= MaxConn
          /\ next_sock' = next_sock + 1
          /\ clients_' = AddClient(clients_, next_sock, now)
          /\ last_op' = [op |-> "accept", res |-> accept_res,
                          sock |-> next_sock]
          /\ IF Added(clients_)
             THEN /\ open_socks' = open_socks \cup {next_sock}
                  /\ connect_calls' =
                       IF on_connect_handler_
                       THEN connect_calls \cup {next_sock}
                       ELSE connect_calls
                  /\ UNCHANGED rejected
             ELSE /\ rejected' = rejected \cup {next_sock}
                  /\ UNCHANGED <<open_socks, connect_calls>>
  /\ UNCHANGED <<on_connect_handler_, on_disconnect_handler_, now,
                 last_cleanup, listen_ready, read_fds, idx, disconnect_calls,
                 tracked, dispatched, produced, wire>>

\* The second loop of an iteration, "for (auto& client : clients_) if
\* (client.active && FD_ISSET(client.sock, &read_fds)) handle_client_data":
\* the slots from idx on that the loop will still serve.
Readable(i) ==
  /\ i \in idx..Len(clients_)
  /\ clients_[i].active
  /\ clients_[i].sock \in read_fds

NextReadable == CHOOSE i \in idx..Len(clients_) :
                  Readable(i) /\ \A j \in idx..(i - 1) : ~Readable(j)

\* "is_success" of handle_client_data for a handler reply of strlen len.
IsSuccess(len) == len <= max_response_size

\* "sent < 0 && errno != EAGAIN && errno != EWOULDBLOCK"
SendFailed(sent, errno) == sent < 0 /\ errno # "EAGAIN"

\* Variant: a failed recv is never taken for a closed connection.
RecvClosedOnlyEof(rlen, errno) == rlen = 0

\* "rlen == 0 || (rlen < 0 && errno != EAGAIN && errno != EWOULDBLOCK)"
RecvClosed(rlen, errno) == rlen = 0 \/ (rlen < 0 /\ errno # "EAGAIN")

\* The bytes a send() that returned sent has put on the wire.
Transmitted(reply, sent) == IF sent > 0 THEN SubSeq(reply, 1, sent) ELSE <<>>

\* Bytes received so far on the observed connection.
RxCount == Len(Flatten(dispatched))

\* handle_client_data on slot i.  rlen/errno are the result of recv, len is
\* strlen of the handler's reply, sent/serrno the result of send.
HandleClientData(i, rlen, errno, len, sent, serrno) ==
  LET s      == clients_[i].sock
      chunk  == Range(RxCount + 1, RxCount + rlen)
      reply  == Range(Len(produced) + 1, Len(produced) + len)
      closed == Deactivate(clients_, i)
      fresh  == [clients_ EXCEPT ![i].last_activity = now]
  IN
  /\ UNCHANGED nonTcpVars
  /\ idx' = i + 1
  /\ last_op' = [op |-> "data", sock |-> s, rlen |-> rlen, errno |-> errno,
                  len |-> len, sent |-> sent, serrno |-> serrno]
  /\ IF rlen > 0
     THEN /\ dispatched' = IF s = tracked THEN Append(dispatched, chunk)
                           ELSE dispatched
          /\ IF ~IsSuccess(len) \/ len = 0
             THEN \* handler failed, or asked for the connection to be closed
                  /\ clients_' = Deactivate(fresh, i)
                  /\ disconnect_calls' = DisconnectCall(disconnect_calls, s)
                  /\ open_socks' = open_socks \ {s}
                  /\ UNCHANGED <<produced, wire>>
             ELSE /\ produced' = IF s = tracked THEN produced \o reply
                                 ELSE produced
                  /\ wire' = IF s = tracked
                             THEN wire \o Transmitted(reply, sent)
                             ELSE wire
                  /\ IF SendFailed(sent, serrno)
                     THEN /\ clients_' = Deactivate(fresh, i)
                          /\ disconnect_calls' =
                               DisconnectCall(disconnect_calls, s)
                          /\ open_socks' = open_socks \ {s}
                     ELSE /\ clients_' = fresh
                          /\ UNCHANGED <<disconnect_calls, open_socks>>
     ELSE /\ IF RecvClosed(rlen, errno)
             THEN /\ clients_' = closed
                  /\ disconnect_calls' = DisconnectCall(disconnect_calls, s)
                  /\ open_socks' = open_socks \ {s}
             ELSE UNCHANGED <<clients_, disconnect_calls, open_socks>>
          /\ UNCHANGED <<dispatched, produced, wire>>
  /\ UNCHANGED <<on_connect_handler_, on_disconnect_handler_, pc, now,
                 last_cleanup, listen_ready, read_fds, next_sock,
                 connect_calls, rejected, tracked>>

Errnos == {"EAGAIN", "ECONNRESET"}

\* The loop serves the next readable client with every result recv, the
\* handler and send can produce.
ServeClient ==
  /\ pc = "clients"
  /\ \E i \in idx..Len(clients_) : Readable(i)
  /\ LET i == NextReadable
         s == clients_[i].sock
     IN \E rlen \in -1..(buffer_size_ - 1),
           errno \in Errnos,
           len \in 0..(max_response_size + 1) :
          \* off the recorded connection the lengths matter only as
          \* "some bytes" and "a reply of accepted size"
          /\ s # tracked => (rlen <= 1 /\ len \in {0, 1, max_response_size + 1})
          \* errno matters after a failed recv only, the reply after a
          \* successful one only
          /\ rlen >= 0 => errno = "EAGAIN"
          /\ rlen <= 0 => len = 0
          \* the recorded streams are bounded
          /\ s = tracked => /\ RxCount + rlen <= MaxStream
                            /\ IsSuccess(len) =>
                                 Len(produced) + len <= MaxReply
          /\ \E sent \in -1..len, serrno \in Errnos :
               \* send is called for a non-empty reply of accepted size only
               /\ sent >= 0 => serrno = "EAGAIN"
               /\ (rlen <= 0 \/ len = 0 \/ ~IsSuccess(len)) => sent = 0
               /\ HandleClientData(i, rlen, errno, len, sent, serrno)

\* Variant: the operands of the subtraction are exchanged.
TimedOutSwapped(c, t) ==
  c.active /\ (c.last_activity - t) > client_timeout_seconds_

\* cleanup_inactive_clients: close every active client idle for longer than
\* the timeout.
TimedOut(c, t) == c.active /\ (t - c.last_activity) > client_timeout_seconds_

\* Variant: the sweep closes every client, idle or not.
CleanupEveryClient(cl, t) ==
  [i \in 1..Len(cl) |-> [cl[i] EXCEPT !.active = FALSE]]

CleanupInactiveClients(cl, t) ==
  [i \in 1..Len(cl) |->
     IF TimedOut(cl[i], t) THEN [cl[i] EXCEPT !.active = FALSE] ELSE cl[i]]

RECURSIVE SweepCalls(_, _, _, _)
SweepCalls(calls, cl, t, i) ==
  IF i > Len(cl) THEN calls
  ELSE SweepCalls(IF TimedOut(cl[i], t) THEN DisconnectCall(calls, cl[i].sock)
                  ELSE calls, cl, t, i + 1)

\* "if (now - last_cleanup >= cleanup_interval_seconds_)"
CleanupDue(t, last) == t - last >= cleanup_interval_seconds_

\* handle_clients, end of one iteration: once no client is left to serve,
\* run the sweep if it is due and go back to select.
PeriodicCleanup ==
  /\ UNCHANGED nonTcpVars
  /\ pc = "clients"
  /\ ~\E i \in idx..Len(clients_) : Readable(i)
  /\ pc' = "select"
  /\ IF CleanupDue(now, last_cleanup)
     THEN /\ clients_' = CleanupInactiveClients(clients_, now)
          /\ disconnect_calls' = SweepCalls(disconnect_calls, clients_, now, 1)
          /\ open_socks' = open_socks \
               {clients_[i].sock : i \in {j \in 1..Len(clients_) :
                                            TimedOut(clients_[j], now)}}
          /\ last_cleanup' = now
     ELSE UNCHANGED <<clients_, disconnect_calls, open_socks, last_cleanup>>
  /\ last_op' = [op |-> "periodic", sock |-> 0]
  /\ UNCHANGED <<on_connect_handler_, on_disconnect_handler_, now,
                 listen_ready, read_fds, idx, next_sock, connect_calls,
                 rejected, tracked, dispatched, produced, wire>>

\* tcp_server_task after handle_clients has returned: close the sockets of
\* the clients still active and end the task.
TaskExit ==
  /\ UNCHANGED nonTcpVars
  /\ pc = "exit"
  /\ pc' = "dead"
  /\ open_socks' = open_socks \ {clients_[i].sock : i \in ActiveSlots}
  /\ last_op' = NoOp
  /\ UNCHANGED <<clients_, on_connect_handler_, on_disconnect_handler_, now,
                 last_cleanup, listen_ready, read_fds, idx, next_sock,
                 connect_calls, disconnect_calls, rejected, tracked,
                 dispatched, produced, wire>>

TcpNext ==
  \/ Select
  \/ HandleNewConnection
  \/ ServeClient
  \/ PeriodicCleanup
  \/ TaskExit

(***************************************************************************)
(* Part II: USB/IP session engine                                          *)
(*                                                                         *)
(* The repository declares the wire structures (usbip_defs.hpp) and the    *)
(* abstract Device (usbip_controller.hpp) and nothing more: the Session    *)
(* state machine, the Provider's attach bookkeeping and the Transfer       *)
(* Executor are modelled from sections 3 to 5 of the specification.        *)
(* Device::unlink_urb keeps the declared return type, bool.                *)
(***************************************************************************)

SessInit ==
  SessIdle /\ TcpIdle /\ WifiIdle /\ NvsIdle /\ CodecIdle /\ ConsoleIdle

\* op_rep_devlist_t / op_rep_import_t / ret_submit_t / ret_unlink_t
OpRepDevlist(count, b) ==
  [code |-> "OP_REP_DEVLIST", status |-> OK, exported_count |-> count,
   descriptor |-> b]

OpRepImport(st, b) ==
  [code |-> "OP_REP_IMPORT", status |-> st, descriptor |-> b]

RetSubmit(n, st) == [command |-> "RET_SUBMIT", seq_num |-> n, status |-> st]

RetUnlink(n, st) == [command |-> "RET_UNLINK", seq_num |-> n, status |-> st]

\* The descriptor of an error reply is zeroed.
ZeroDescriptor == "zero"

PendingSeqs(c) == {p.seq_num : p \in pending[c]}

\* Variant: the attach-ownership flag is not consulted.
CanAttachUnchecked(b) == b \in KnownBusIds

\* Variant: a bus id that resolves to no Device is attached as well.
CanAttachUnresolved(b) == b \notin KnownBusIds \/ attach_owner[b] = 0

\* Provider: resolve a bus id and test the attach-ownership flag.
CanAttach(b) == b \in KnownBusIds /\ attach_owner[b] = 0

\* Variant: teardown leaves the attach-ownership flag set.
ReleaseNothing(owner, c) == owner

\* Session teardown: release the Device and drop the correlation table.
\* What the Transfer Executor has accepted stays with it: its completion is
\* still delivered, and finds no Session.
Release(owner, c) == [b \in KnownBusIds |-> IF owner[b] = c THEN 0 ELSE owner[b]]

CloseEffects(c) ==
  /\ sess_state' = [sess_state EXCEPT ![c] = "Closed"]
  /\ sess_device' = [sess_device EXCEPT ![c] = "none"]
  /\ pending' = [pending EXCEPT ![c] = {}]
  /\ attach_owner' = Release(attach_owner, c)
  /\ emitted' = <<>>
  /\ UNCHANGED <<executing, completions, returned, accepted, cancelled>>

\* Variant: a Session goes on reading after it has closed.
ReadsWhenClosed(c) ==
  /\ UNCHANGED nonSessVars
  /\ msgs < MaxMsgs
  /\ msgs' = msgs + 1

Reads(c) ==
  /\ UNCHANGED nonSessVars
  /\ sess_state[c] # "Closed"
  /\ msgs < MaxMsgs
  /\ msgs' = msgs + 1

\* OP_REQ_DEVLIST
RecvDevlist(c) ==
  /\ Reads(c)
  /\ last_ev' = [ev |-> "OP_REQ_DEVLIST", sess |-> c]
  /\ IF sess_state[c] = "Negotiating"
     THEN /\ emitted' = <<OpRepDevlist(1, "1-1")>>
          /\ UNCHANGED <<sess_state, sess_device, pending, attach_owner,
                         executing, completions, returned, accepted,
                         cancelled>>
     ELSE CloseEffects(c)

\* OP_REQ_IMPORT{bus_id = b}
RecvImport(c, b) ==
  /\ Reads(c)
  /\ last_ev' = [ev |-> "OP_REQ_IMPORT", sess |-> c, bus_id |-> b]
  /\ IF sess_state[c] = "Negotiating"
     THEN IF CanAttach(b)
          THEN /\ attach_owner' = [attach_owner EXCEPT ![b] = c]
               /\ sess_state' = [sess_state EXCEPT ![c] = "Attached"]
               /\ sess_device' = [sess_device EXCEPT ![c] = b]
               /\ emitted' = <<OpRepImport(OK, b)>>
               /\ UNCHANGED <<pending, executing, completions, returned,
                              accepted, cancelled>>
          ELSE /\ emitted' = <<OpRepImport(ERROR, ZeroDescriptor)>>
               /\ UNCHANGED <<sess_state, sess_device, pending, attach_owner,
                              executing, completions, returned, accepted,
                              cancelled>>
     ELSE CloseEffects(c)

\* Any message that is neither OP_REQ_DEVLIST nor OP_REQ_IMPORT while
\* Negotiating, neither CMD_SUBMIT nor CMD_UNLINK while Attached, or a
\* header that does not decode: a reply code stands for the codes a server
\* never reads.
Violations == {"malformed", "RET_SUBMIT"}

RecvViolation(c, m) ==
  /\ Reads(c)
  /\ last_ev' = [ev |-> m, sess |-> c]
  /\ CloseEffects(c)

\* Variant: the uniqueness of seq_num is not checked.
SeqNumFreeUnchecked(c, n) == TRUE

\* Session check made before a CMD_SUBMIT is accepted.
SeqNumFree(c, n) == n \notin PendingSeqs(c)

\* CMD_SUBMIT{seq_num = n, endpoint = ep}
RecvSubmit(c, n, ep) ==
  /\ Reads(c)
  /\ last_ev' = [ev |-> "CMD_SUBMIT", sess |-> c, seq_num |-> n,
                  endpoint |-> ep]
  /\ IF sess_state[c] = "Attached" /\ SeqNumFree(c, n)
     THEN /\ pending' = [pending EXCEPT
                           ![c] = @ \cup {[seq_num |-> n, endpoint |-> ep]}]
          /\ executing' = executing \cup
                            {[sess |-> c, seq_num |-> n, endpoint |-> ep]}
          /\ accepted' = [accepted EXCEPT ![c][n] = @ + 1]
          /\ emitted' = <<>>
          /\ UNCHANGED <<sess_state, sess_device, attach_owner, completions,
                         returned, cancelled>>
     ELSE CloseEffects(c)

\* Variant: the Device reports every submission of the table as aborted,
\* completed or not.
UnlinkUrbAnyPending(c, n) == n \in PendingSeqs(c)

\* Device::unlink_urb (bool): true when the transfer was still executing and
\* has been aborted.
UnlinkUrb(c, n) == \E e \in executing : e.sess = c /\ e.seq_num = n

\* The status of RET_UNLINK, from the result of unlink_urb and the Session's
\* own correlation table.
UnlinkStatus(c, n) ==
  IF UnlinkUrb(c, n) THEN "Cancelled"
  ELSE IF n \in PendingSeqs(c) THEN "AlreadyCompleted"
  ELSE "NotFound"

\* CMD_UNLINK{seq_num = u, unlink_seqnum = n}
RecvUnlink(c, u, n) ==
  /\ Reads(c)
  /\ last_ev' = [ev |-> "CMD_UNLINK", sess |-> c, seq_num |-> u,
                  unlink_seqnum |-> n, aborted |-> UnlinkUrb(c, n)]
  /\ IF sess_state[c] = "Attached"
     THEN /\ emitted' = <<RetUnlink(u, UnlinkStatus(c, n))>>
          /\ IF UnlinkUrb(c, n)
             THEN /\ executing' =
                       {e \in executing : ~(e.sess = c /\ e.seq_num = n)}
                  /\ pending' = [pending EXCEPT
                                   ![c] = {q \in @ : q.seq_num # n}]
                  /\ cancelled' = [cancelled EXCEPT ![c][n] = @ + 1]
             ELSE UNCHANGED <<executing, pending, cancelled>>
          /\ UNCHANGED <<sess_state, sess_device, attach_owner, completions,
                         returned, accepted>>
     ELSE CloseEffects(c)

\* Variant: the transfer is completed and kept, to be completed again.
HardwareCompleteTwice(e, st) ==
  /\ UNCHANGED nonSessVars
  /\ e \in executing
  /\ Len(completions) < MaxMsgs
  /\ completions' = Append(completions,
                           [sess |-> e.sess, seq_num |-> e.seq_num,
                            status |-> st])
  /\ emitted' = <<>>
  /\ last_ev' = [ev |-> "completion", sess |-> e.sess, seq_num |-> e.seq_num]
  /\ UNCHANGED <<sess_state, sess_device, pending, attach_owner, returned,
                 msgs, accepted, cancelled, executing>>

\* Transfer Executor, worker context: the hardware finishes a transfer and
\* the completion is put on the queue.
HardwareComplete(e, st) ==
  /\ UNCHANGED nonSessVars
  /\ e \in executing
  /\ executing' = executing \ {e}
  /\ completions' = Append(completions,
                           [sess |-> e.sess, seq_num |-> e.seq_num,
                            status |-> st])
  /\ emitted' = <<>>
  /\ last_ev' = [ev |-> "completion", sess |-> e.sess, seq_num |-> e.seq_num]
  /\ UNCHANGED <<sess_state, sess_device, pending, attach_owner, returned,
                 msgs, accepted, cancelled>>

\* Reactor, once per iteration: take the next completion from the queue and
\* hand it to its Session, which removes the PendingUrb and emits
\* RET_SUBMIT.  The completion of a Session that has closed has no Session
\* to go to.
Delivers(q) ==
  sess_state[q.sess] = "Attached" /\ q.seq_num \in PendingSeqs(q.sess)

DrainCompletion ==
  /\ UNCHANGED nonSessVars
  /\ completions # <<>>
  /\ LET q == Head(completions)
     IN /\ completions' = Tail(completions)
        /\ last_ev' = [ev |-> "drain", sess |-> q.sess, seq_num |-> q.seq_num]
        /\ IF Delivers(q)
           THEN /\ pending' = [pending EXCEPT
                                 ![q.sess] = {r \in @ : r.seq_num # q.seq_num}]
                /\ emitted' = <<RetSubmit(q.seq_num, q.status)>>
                /\ returned' = [returned EXCEPT ![q.sess][q.seq_num] = @ + 1]
           ELSE /\ emitted' = <<>>
                /\ UNCHANGED <<pending, returned>>
  /\ UNCHANGED <<sess_state, sess_device, attach_owner, executing, msgs,
                 accepted, cancelled>>

\* Transport error or peer close on the connection of Session c.
TransportClose(c) ==
  /\ UNCHANGED nonSessVars
  /\ sess_state[c] # "Closed"
  /\ CloseEffects(c)
  /\ last_ev' = [ev |-> "transport_close", sess |-> c]
  /\ UNCHANGED msgs

SessNext ==
  \/ \E c \in Sessions : RecvDevlist(c)
  \/ \E c \in Sessions, b \in BusIds : RecvImport(c, b)
  \/ \E c \in Sessions, m \in Violations : RecvViolation(c, m)
  \/ \E c \in Sessions, n \in SeqNums, ep \in Endpoints : RecvSubmit(c, n, ep)
  \/ \E c \in Sessions, u \in UnlinkSeqNums, n \in SeqNums :
        RecvUnlink(c, u, n)
  \/ \E e \in executing, st \in HwStatuses : HardwareComplete(e, st)
  \/ DrainCompletion
  \/ \E c \in Sessions : TransportClose(c)

(***************************************************************************)
(* Specifications                                                          *)
(***************************************************************************)

\* The TcpServer reactor: slots, clock, sweep.
TcpSpec == TcpInit /\ [][TcpNext]_vars

\* One second of wall-clock time passes while the task is in select.
Tick == Select /\ now' > now

\* The TcpServer reactor as scheduled: the task is never suspended for ever
\* (weak fairness of its steps), and since every iteration ends in
\* vTaskDelay(pdMS_TO_TICKS(1)) the clock read by time(NULL) moves on after
\* finitely many iterations, however often select returns early.
TcpLiveSpec ==
  TcpLiveInit /\ [][TcpNext]_vars /\ WF_tcpVars(TcpNext) /\ SF_now(Tick)

\* The TcpServer reactor with the byte streams of one connection recorded.
TcpDataSpec == TcpDataInit /\ [][TcpNext]_vars

\* The session engine.
SessSpec == SessInit /\ [][SessNext]_vars

Completes == \E e \in executing, st \in HwStatuses : HardwareComplete(e, st)

\* The session engine with the Transfer Executor's worker context running:
\* a transfer the hardware has been given is finished after finite time.
SessLiveSpec ==
  SessInit /\ [][SessNext]_vars /\ WF_<<executing, completions>>(Completes)

(***************************************************************************)
(* Claims about the TcpServer reactor                                      *)
(***************************************************************************)

Full == Len(clients_) = MAX_CLIENTS /\ ActiveSlots = 1..Len(clients_)

\* C1: the table never holds more than MAX_CLIENTS entries, so never more
\* than MAX_CLIENTS active connections; a connection is turned away only
\* when every slot is active and the table is full, and a connection turned
\* away is closed at once: no slot holds it, on_connect was not invoked for
\* it, and no later step (recv, send, disconnect callback) concerns it.
C1_BoundedTable ==
  /\ Len(clients_) <= MAX_CLIENTS
  /\ Cardinality(ActiveSlots) <= MAX_CLIENTS
  /\ \A s \in rejected :
       /\ s \notin open_socks
       /\ s \notin connect_calls
       /\ disconnect_calls[s] = 0
       /\ \A i \in 1..Len(clients_) : clients_[i].sock # s
       /\ last_op.op = "data" => last_op.sock # s
       /\ tracked = s => (wire = <<>> /\ dispatched = <<>>)
  /\ (last_op.op = "accept" /\ last_op.sock \in rejected) => Full
  /\ (last_op.op = "accept" /\ last_op.res = "ok" /\ Full) =>
       (last_op.sock \in rejected \/
        \E i \in ActiveSlots : clients_[i].sock = last_op.sock)

C1_Witness ==
  /\ last_op.op = "accept"
  /\ last_op.sock \in rejected
  /\ Full

IdleSlot(i) ==
  /\ i \in 1..Len(clients_)
  /\ clients_[i].active
  /\ (now - clients_[i].last_activity) > client_timeout_seconds_

Stopped == pc \in {"exit", "dead"}

\* A sweep that is due closes every idle connection: slot inactive, socket
\* closed, disconnect callback invoked when one is installed.
C2_SweepStep ==
  (last_op'.op = "periodic" /\ now - last_cleanup >= cleanup_interval_seconds_)
    => \A i \in 1..Len(clients_) :
         IdleSlot(i) =>
           /\ ~clients_'[i].active
           /\ clients_[i].sock \notin open_socks'
           /\ on_disconnect_handler_ =>
                disconnect_calls'[clients_[i].sock] =
                  disconnect_calls[clients_[i].sock] + 1

\* C2: while the reactor loop runs, a connection that has been idle for
\* longer than client_timeout_seconds_ does not stay so: unless data arrives
\* or the connection ends otherwise, the periodic sweep closes it, also
\* when select never reports a readable socket.
C2_IdleReclaimed ==
  /\ \A i \in 1..MAX_CLIENTS : IdleSlot(i) ~> (~IdleSlot(i) \/ Stopped)
  /\ [][C2_SweepStep]_vars

C2_Witness ==
  /\ last_op.op = "periodic"
  /\ last_cleanup = now
  /\ \E i \in 1..Len(clients_) :
       /\ ~clients_[i].active
       /\ clients_[i].sock \notin open_socks
       /\ (now - clients_[i].last_activity) > client_timeout_seconds_
       /\ disconnect_calls[clients_[i].sock] = 1
       /\ read_fds = {}

\* What recv and send returned in the step recorded in o.
RecvZero(o) == o.rlen = 0
RecvError(o) == o.rlen < 0 /\ o.errno # "EAGAIN"
RecvWouldBlock(o) == o.rlen < 0 /\ o.errno = "EAGAIN"
WriteError(o) ==
  /\ o.rlen > 0
  /\ o.len \in 1..max_response_size
  /\ o.sent < 0
  /\ o.serrno # "EAGAIN"

\* C3: a handle_client_data step whose recv returned 0, or whose recv or
\* send failed with an error other than would-block, closes the connection
\* in that same step (slot inactive, socket closed, disconnect callback
\* invoked once when one is installed) and touches no other slot; a step
\* whose recv would block leaves the table, the sockets and the callbacks
\* as they were.
C3_Step ==
  last_op'.op = "data" =>
    LET o == last_op'
        s == o.sock
    IN \E i \in 1..Len(clients_) :
         /\ clients_[i].sock = s
         /\ clients_[i].active
         /\ s \in open_socks
         /\ (RecvZero(o) \/ RecvError(o) \/ WriteError(o)) =>
              /\ ~clients_'[i].active
              /\ s \notin open_socks'
              /\ open_socks' = open_socks \ {s}
              /\ disconnect_calls' =
                   IF on_disconnect_handler_
                   THEN [disconnect_calls EXCEPT ![s] = @ + 1]
                   ELSE disconnect_calls
              /\ \A j \in 1..Len(clients_) : j # i => clients_'[j] = clients_[j]
         /\ RecvWouldBlock(o) =>
              /\ clients_' = clients_
              /\ open_socks' = open_socks
              /\ disconnect_calls' = disconnect_calls

C3_ErrorsClose == [][C3_Step]_vars

C3_Witness ==
  /\ last_op.op = "data"
  /\ RecvError(last_op)
  /\ last_op.sock \notin open_socks
  /\ on_disconnect_handler_
  /\ disconnect_calls[last_op.sock] = 1

\* C4: while the observed connection is open, the bytes sent on it are the
\* reply bytes the handler produced, in order and without a gap: a reply
\* byte is transmitted only after every reply byte before it.
C4_NoReplyByteLost ==
  tracked \in open_socks => IsPrefix(wire, produced)

\* What handle_client_data passes to the handler when the bytes of stream
\* arrive in one read.
SingleChunk(stream) == IF stream = <<>> THEN <<>> ELSE <<stream>>

\* C5: however the byte stream of the observed connection was split into
\* reads, the handler has been given what it is given when the same bytes
\* arrive in a single read.
C5_SplitInvisible ==
  RxCount <= buffer_size_ - 1 => dispatched = SingleChunk(Flatten(dispatched))

(***************************************************************************)
(* Claims about the session engine                                         *)
(***************************************************************************)

AttachedTo(c, b) == sess_state[c] = "Attached" /\ sess_device[c] = b

IsExecuting(c, n) == \E e \in executing : e.sess = c /\ e.seq_num = n

IsQueued(c, n) ==
  \E k \in 1..Len(completions) :
    completions[k].sess = c /\ completions[k].seq_num = n

\* The step reads a message for Session c.
ReadBy(c) == msgs' = msgs + 1 /\ last_ev'.sess = c

\* C6, in every state: a Device is attached to at most one Session, and
\* the reply to an OP_REQ_IMPORT says OK exactly when the Session that sent
\* it now holds the Device alone, ERROR only when it stays Negotiating and,
\* for a known bus id, another Session holds the Device.
C6_State ==
  /\ \A b \in KnownBusIds :
       Cardinality({c \in Sessions : AttachedTo(c, b)}) <= 1
  /\ last_ev.ev = "OP_REQ_IMPORT" =>
       LET c == last_ev.sess
           b == last_ev.bus_id
       IN \/ /\ emitted = <<OpRepImport(OK, b)>>
             /\ AttachedTo(c, b)
             /\ attach_owner[b] = c
          \/ /\ emitted = <<OpRepImport(ERROR, ZeroDescriptor)>>
             /\ sess_state[c] = "Negotiating"
             /\ b \in KnownBusIds => \E c2 \in Sessions \ {c} : AttachedTo(c2, b)
          \/ /\ emitted = <<>>
             /\ sess_state[c] = "Closed"

\* C6, in every step: of the Negotiating Sessions that ask for a known
\* Device, the one that asks while it is free gets OK, and one that asks
\* while it is held gets ERROR and changes nothing: the holder keeps its
\* attachment, its correlation table and its transfers.
C6_Step ==
  \A c \in Sessions :
    (ReadBy(c) /\ last_ev'.ev = "OP_REQ_IMPORT"
       /\ sess_state[c] = "Negotiating" /\ last_ev'.bus_id \in KnownBusIds) =>
      LET b == last_ev'.bus_id
      IN IF \E c2 \in Sessions : AttachedTo(c2, b)
         THEN /\ emitted' = <<OpRepImport(ERROR, ZeroDescriptor)>>
              /\ UNCHANGED <<sess_state, sess_device, pending, attach_owner,
                             executing, completions, returned, accepted,
                             cancelled>>
         ELSE /\ emitted' = <<OpRepImport(OK, b)>>
              /\ sess_state'[c] = "Attached"

C6_ExclusiveAttach == []C6_State /\ [][C6_Step]_vars

C6_Witness ==
  /\ last_ev.ev = "OP_REQ_IMPORT"
  /\ last_ev.bus_id \in KnownBusIds
  /\ emitted = <<OpRepImport(ERROR, ZeroDescriptor)>>
  /\ \E c2 \in Sessions \ {last_ev.sess} :
       /\ AttachedTo(c2, last_ev.bus_id)
       /\ pending[c2] # {}
       /\ returned[c2][1] = 1

Pend(c, n) == IF n \in PendingSeqs(c) THEN 1 ELSE 0

C7_State ==
  /\ \A c \in Sessions, n \in SeqNums :
       /\ returned[c][n] + cancelled[c][n] <= accepted[c][n]
       /\ sess_state[c] = "Attached" =>
            accepted[c][n] = returned[c][n] + cancelled[c][n] + Pend(c, n)
  /\ \A c \in Sessions :
       \A p \in pending[c], q \in pending[c] : p.seq_num = q.seq_num => p = q
  /\ (last_ev.ev = "drain" /\ emitted # <<>>) =>
       /\ Len(emitted) = 1
       /\ emitted[1].command = "RET_SUBMIT"
       /\ emitted[1].seq_num = last_ev.seq_num

\* C7 amended, in every step: a CMD_SUBMIT that reuses a seq_num still
\* pending is not accepted, and each RET_SUBMIT emitted removes the pending
\* entry it answers.
C7_Step ==
  /\ \A c \in Sessions :
       (ReadBy(c) /\ last_ev'.ev = "CMD_SUBMIT"
          /\ last_ev'.seq_num \in PendingSeqs(c)) =>
         /\ accepted' = accepted
         /\ \A e \in executing' : e \in executing
  /\ \A c \in Sessions, n \in SeqNums :
       returned'[c][n] # returned[c][n] =>
         /\ returned'[c][n] = returned[c][n] + 1
         /\ n \in PendingSeqs(c)
         /\ n \notin {q.seq_num : q \in pending'[c]}

C8_State ==
  \A k \in 1..Len(completions) :
    LET q == completions[k]
    IN sess_state[q.sess] = "Attached" =>
         /\ q.seq_num \in PendingSeqs(q.sess)
         /\ \A j \in 1..Len(completions) :
              (completions[j].sess = q.sess
                 /\ completions[j].seq_num = q.seq_num) => j = k

\* C8, in every step: a CMD_UNLINK for a submission whose completion is
\* queued and not yet delivered is answered by RET_UNLINK with status
\* AlreadyCompleted and leaves the completion and the table as they are;
\* a completion leaves the queue only from its head, and when its Session
\* is Attached the step that removes it emits its RET_SUBMIT, once.
C8_Step ==
  /\ \A c \in Sessions :
       (ReadBy(c) /\ last_ev'.ev = "CMD_UNLINK" /\ sess_state[c] = "Attached"
          /\ IsQueued(c, last_ev'.unlink_seqnum)) =>
         /\ emitted' = <<RetUnlink(last_ev'.seq_num, "AlreadyCompleted")>>
         /\ completions' = completions
         /\ pending' = pending
         /\ returned' = returned
  /\ \/ completions' = completions
     \/ /\ Len(completions') = Len(completions) + 1
        /\ SubSeq(completions', 1, Len(completions)) = completions
     \/ /\ completions # <<>>
        /\ completions' = Tail(completions)
        /\ LET q == Head(completions)
           IN sess_state[q.sess] = "Attached" =>
                /\ emitted' = <<RetSubmit(q.seq_num, q.status)>>
                /\ returned'[q.sess][q.seq_num] =
                     returned[q.sess][q.seq_num] + 1

C9_SameOutcomeSameStatus ==
  (/\ last_ev.ev = "CMD_UNLINK"
   /\ emitted # <<>>
   /\ msgs' = msgs + 1
   /\ last_ev'.ev = "CMD_UNLINK"
   /\ emitted' # <<>>
   /\ last_ev'.aborted = last_ev.aborted) =>
    emitted'[1].status = emitted[1].status

C9_StatusIsDeviceOutcome == [][C9_SameOutcomeSameStatus]_vars

Rank(st) ==
  CASE st = "Negotiating" -> 0
    [] st = "Attached" -> 1
    [] st = "Closed" -> 2

\* C10, in every step: no Session moves to an earlier state; a Closed
\* Session stays Closed, reads no message and emits no reply; a Negotiating
\* Session that reads anything but OP_REQ_DEVLIST or OP_REQ_IMPORT, a
\* malformed header included, is Closed by that step.
C10_Step ==
  \A c \in Sessions :
    /\ Rank(sess_state'[c]) >= Rank(sess_state[c])
    /\ sess_state[c] = "Closed" =>
         /\ sess_state'[c] = "Closed"
         /\ ~ReadBy(c)
         /\ (emitted' # <<>> /\ <<msgs, completions>>' # <<msgs, completions>>)
              => last_ev'.sess # c
    /\ (sess_state[c] = "Negotiating" /\ ReadBy(c)
          /\ last_ev'.ev \notin {"OP_REQ_DEVLIST", "OP_REQ_IMPORT"}) =>
         /\ sess_state'[c] = "Closed"
         /\ emitted' = <<>>

C10_StateOrder == [][C10_Step]_vars

C10_Witness ==
  /\ last_ev.ev = "malformed"
  /\ sess_state[last_ev.sess] = "Closed"
  /\ \E c \in Sessions \ {last_ev.sess} : sess_state[c] = "Attached"


\* C11, in every step: an OP_REQ_IMPORT read by a Negotiating Session that
\* names a bus id no Device has, or a Device another Session is attached
\* to, is answered by one OP_REP_IMPORT with status ERROR and a zeroed
\* descriptor, and changes nothing else: the Session stays Negotiating (its
\* connection stays open for further requests) and no attachment is
\* created, moved or released.
C11_Step ==
  \A c \in Sessions :
    (/\ ReadBy(c)
     /\ last_ev'.ev = "OP_REQ_IMPORT"
     /\ sess_state[c] = "Negotiating"
     /\ \/ last_ev'.bus_id \notin KnownBusIds
        \/ \E c2 \in Sessions : AttachedTo(c2, last_ev'.bus_id)) =>
      /\ emitted' = <<OpRepImport(ERROR, ZeroDescriptor)>>
      /\ sess_state'[c] = "Negotiating"
      /\ UNCHANGED <<sess_state, sess_device, attach_owner, pending>>

C11_ImportRejected == [][C11_Step]_vars

C11_Witness ==
  /\ last_ev.ev = "OP_REQ_IMPORT"
  /\ last_ev.bus_id \notin KnownBusIds
  /\ emitted = <<OpRepImport(ERROR, ZeroDescriptor)>>
  /\ sess_state[last_ev.sess] = "Negotiating"
  /\ \E c2 \in Sessions : sess_state[c2] = "Attached"


\* C12, in every state: a Device is held only by a Session that is Attached
\* to it, never by one that has closed.
C12_State ==
  \A b \in KnownBusIds :
    attach_owner[b] # 0 => AttachedTo(attach_owner[b], b)

\* C12, in every step: the step that closes an Attached Session, whatever
\* closes it (the close of its connection or a protocol violation),
\* releases the Device it held; and an OP_REQ_IMPORT read by a Negotiating
\* Session for a Device no Session is attached to succeeds.
C12_Step ==
  /\ \A c \in Sessions :
       (sess_state[c] = "Attached" /\ sess_state'[c] = "Closed") =>
         /\ attach_owner'[sess_device[c]] = 0
         /\ sess_device'[c] = "none"
  /\ \A c \in Sessions :
       (/\ ReadBy(c)
        /\ last_ev'.ev = "OP_REQ_IMPORT"
        /\ sess_state[c] = "Negotiating"
        /\ last_ev'.bus_id \in KnownBusIds
        /\ ~\E c2 \in Sessions : AttachedTo(c2, last_ev'.bus_id)) =>
         /\ emitted' = <<OpRepImport(OK, last_ev'.bus_id)>>
         /\ sess_state'[c] = "Attached"
         /\ sess_device'[c] = last_ev'.bus_id
         /\ attach_owner'[last_ev'.bus_id] = c

C12_ReleaseOnClose == []C12_State /\ [][C12_Step]_vars

C12_Witness ==
  /\ last_ev.ev = "OP_REQ_IMPORT"
  /\ emitted = <<OpRepImport(OK, last_ev.bus_id)>>
  /\ AttachedTo(last_ev.sess, last_ev.bus_id)
  /\ \E c2 \in Sessions \ {last_ev.sess}, n \in SeqNums :
       sess_state[c2] = "Closed" /\ accepted[c2][n] > 0


InExecution(c, n) ==
  Cardinality({e \in executing : e.sess = c /\ e.seq_num = n})

InExecutionNext(c, n) ==
  Cardinality({e \in executing' : e.sess = c /\ e.seq_num = n})

\* C13, in every state: a submission is in execution at most once, and one
\* whose completion is queued for an Attached Session is no longer in
\* execution.
C13_State ==
  \A c \in Sessions, n \in SeqNums :
    /\ InExecution(c, n) <= 1
    /\ (sess_state[c] = "Attached" /\ IsQueued(c, n)) => InExecution(c, n) = 0

\* C13, in every step: a submission enters execution when it is accepted
\* and only then; it leaves execution by exactly one of a completion event
\* queued for the reactor and a cancellation result, never both, and
\* nothing else queues a completion or reports a cancellation.
C13_Step ==
  /\ \A c \in Sessions, n \in SeqNums :
       /\ InExecutionNext(c, n) > InExecution(c, n) =>
            accepted'[c][n] = accepted[c][n] + 1
       /\ accepted'[c][n] # accepted[c][n] =>
            (InExecution(c, n) = 0 /\ InExecutionNext(c, n) = 1)
       /\ InExecutionNext(c, n) < InExecution(c, n) =>
            \/ /\ Len(completions') = Len(completions) + 1
               /\ SubSeq(completions', 1, Len(completions)) = completions
               /\ completions'[Len(completions')].sess = c
               /\ completions'[Len(completions')].seq_num = n
               /\ cancelled' = cancelled
            \/ /\ cancelled' = [cancelled EXCEPT ![c][n] = @ + 1]
               /\ completions' = completions
               /\ emitted' = <<RetUnlink(last_ev'.seq_num, "Cancelled")>>
       /\ cancelled'[c][n] # cancelled[c][n] =>
            InExecutionNext(c, n) < InExecution(c, n)
  /\ Len(completions') > Len(completions) =>
       LET q == completions'[Len(completions')]
       IN InExecutionNext(q.sess, q.seq_num) < InExecution(q.sess, q.seq_num)

SlotUntouched(j) ==
  /\ clients_'[j] = clients_[j]
  /\ (clients_[j].sock \in open_socks') = (clients_[j].sock \in open_socks)
  /\ disconnect_calls'[clients_[j].sock] = disconnect_calls[clients_[j].sock]

\* C14, in every step: whatever handle_client_data does with one connection
\* (data refused by the handler, a read or write error, a close asked for
\* by the handler) leaves the slot of every other connection (socket,
\* active flag, last_activity) as it was; the sweep leaves every slot as it
\* was whose own timeout has not expired; and a step that closes one
\* Session leaves the state, the correlation table and the attachment of
\* every other Session as they were.
C14_Step ==
  /\ Len(clients_') >= Len(clients_)
  /\ (last_op'.op = "data" /\ pc = "clients") =>
       \A j \in 1..Len(clients_) :
         clients_[j].sock # last_op'.sock => SlotUntouched(j)
  /\ (last_op'.op = "periodic" /\ pc = "clients") =>
       \A j \in 1..Len(clients_) :
         ~(clients_[j].active
             /\ now - clients_[j].last_activity > client_timeout_seconds_)
           => SlotUntouched(j)
  /\ \A c \in Sessions :
       (sess_state[c] # "Closed" /\ sess_state'[c] = "Closed") =>
         /\ \A c2 \in Sessions \ {c} :
              /\ sess_state'[c2] = sess_state[c2]
              /\ sess_device'[c2] = sess_device[c2]
              /\ pending'[c2] = pending[c2]
         /\ \A b \in KnownBusIds :
              attach_owner[b] # c => attach_owner'[b] = attach_owner[b]

Credentials == {"valid", "empty_ssid", "empty_password"}

\* wifi_event_sta_disconnected_t::reason, one value per branch of the switch
Reasons == {"NO_AP_FOUND", "AUTH_FAIL", "BEACON_TIMEOUT"}

WifiInit ==
  /\ TcpIdle
  /\ SessIdle
  /\ NvsIdle
  /\ CodecIdle
  /\ ConsoleIdle
  /\ w_pc = "boot"
  /\ credentials \in Credentials
  /\ connection_state_ = "DISCONNECTED"
  /\ last_error_ = "NONE"
  /\ retry_num_ = 0
  /\ ip_address_ = "null"
  /\ event_bits = {}
  /\ init_ret = "none"
  /\ radio = "off"
  /\ srv_listening = FALSE
  /\ srv_sessions = 0
  /\ last_wev = NoWev

nonWifiVars == <<tcpVars, sessVars, nvsVars, codecVars, consoleVars>>

\* validate_credentials: an empty ssid or password is rejected.
validate_credentials == credentials = "valid"

\* The switch of handle_wifi_event on the disconnect reason.
MapReason(reason) ==
  CASE reason = "NO_AP_FOUND" -> "SSID_NOT_FOUND"
    [] reason = "AUTH_FAIL" -> "AUTHENTICATION_FAILED"
    [] OTHER -> "UNKNOWN_ERROR"

\* init_sta up to xEventGroupWaitBits: the state is reset; invalid
\* credentials make it return ESP_ERR_INVALID_ARG through
\* set_connection_error; valid ones start the driver.
InitSta ==
  /\ w_pc = "boot"
  /\ retry_num_' = 0
  /\ IF validate_credentials
       THEN /\ connection_state_' = "DISCONNECTED"
            /\ last_error_' = "NONE"
            /\ radio' = "starting"
            /\ w_pc' = "waiting"
            /\ init_ret' = init_ret
       ELSE /\ connection_state_' = "FAILED"
            /\ last_error_' = "INVALID_CREDENTIALS"
            /\ radio' = radio
            /\ w_pc' = "returned"
            /\ init_ret' = "ESP_ERR_INVALID_ARG"
  /\ last_wev' = [ev |-> "init_sta"]
  /\ UNCHANGED <<credentials, ip_address_, event_bits, srv_listening,
                 srv_sessions>>
  /\ UNCHANGED nonWifiVars

\* handle_wifi_event, WIFI_EVENT_STA_START
StaStart ==
  /\ radio = "starting"
  /\ w_pc # "sleep"
  /\ connection_state_' = "CONNECTING"
  /\ radio' = "attempt"
  /\ last_wev' = [ev |-> "STA_START"]
  /\ UNCHANGED <<w_pc, credentials, last_error_, retry_num_, ip_address_,
                 event_bits, init_ret, srv_listening, srv_sessions>>
  /\ UNCHANGED nonWifiVars

\* handle_wifi_event, WIFI_EVENT_STA_DISCONNECTED: the driver reports a failed
\* attempt or the loss of the association.  set_connection_error stores the
\* mapped error and the state FAILED; then the handler retries or gives up.
StaDisconnected(reason) ==
  /\ radio \in {"attempt", "up"}
  /\ w_pc # "sleep"
  /\ last_error_' = MapReason(reason)
  /\ connection_state_' = "FAILED"
  /\ IF retry_num_ < WIFI_MAXIMUM_RETRY
       THEN /\ retry_num_' = retry_num_ + 1
            /\ radio' = "attempt"
            /\ event_bits' = event_bits
       ELSE /\ retry_num_' = retry_num_
            /\ radio' = "down"
            /\ event_bits' = event_bits \cup {"WIFI_FAIL_BIT"}
  /\ last_wev' = [ev |-> "STA_DISCONNECTED", reason |-> reason,
                  retried |-> retry_num_ < WIFI_MAXIMUM_RETRY,
                  retry_num |-> retry_num_,
                  serving |-> srv_listening, sessions |-> srv_sessions]
  /\ UNCHANGED <<w_pc, credentials, ip_address_, init_ret, srv_listening,
                 srv_sessions>>
  /\ UNCHANGED nonWifiVars

\* handle_ip_event, IP_EVENT_STA_GOT_IP
GotIp ==
  /\ radio = "attempt"
  /\ w_pc # "sleep"
  /\ ip_address_' = "ip"
  /\ retry_num_' = 0
  /\ last_error_' = "NONE"
  /\ connection_state_' = "CONNECTED"
  /\ event_bits' = event_bits \cup {"WIFI_CONNECTED_BIT"}
  /\ radio' = "up"
  /\ last_wev' = [ev |-> "GOT_IP"]
  /\ UNCHANGED <<w_pc, credentials, init_ret, srv_listening, srv_sessions>>
  /\ UNCHANGED nonWifiVars

\* Variant: xEventGroupWaitBits returns without any bit being set.
WaitReturnNoWait ==
  /\ w_pc = "waiting"
  /\ init_ret' = IF "WIFI_CONNECTED_BIT" \in event_bits
                   THEN "ESP_OK" ELSE "ESP_FAIL"
  /\ w_pc' = "returned"
  /\ last_wev' = [ev |-> "launch_returned"]
  /\ UNCHANGED <<credentials, connection_state_, last_error_, retry_num_,
                 ip_address_, event_bits, radio, srv_listening, srv_sessions>>
  /\ UNCHANGED nonWifiVars

\* start_wifi_and_wait after xEventGroupWaitBits has returned
WaitReturn ==
  /\ w_pc = "waiting"
  /\ event_bits # {}
  /\ init_ret' = IF "WIFI_CONNECTED_BIT" \in event_bits
                   THEN "ESP_OK" ELSE "ESP_FAIL"
  /\ w_pc' = "returned"
  /\ last_wev' = [ev |-> "launch_returned"]
  /\ UNCHANGED <<credentials, connection_state_, last_error_, retry_num_,
                 ip_address_, event_bits, radio, srv_listening, srv_sessions>>
  /\ UNCHANGED nonWifiVars

\* app_main: wifi_ret != ESP_OK puts the chip to deep sleep.
CheckLaunch ==
  /\ w_pc = "returned"
  /\ w_pc' = IF init_ret = "ESP_OK" THEN "launched" ELSE "sleep"
  /\ last_wev' = [ev |-> "check_launch"]
  /\ UNCHANGED <<credentials, connection_state_, last_error_, retry_num_,
                 ip_address_, event_bits, init_ret, radio, srv_listening,
                 srv_sessions>>
  /\ UNCHANGED nonWifiVars

\* app_main: a state other than CONNECTED puts the chip to deep sleep.
CheckState ==
  /\ w_pc = "launched"
  /\ w_pc' = IF connection_state_ = "CONNECTED" THEN "checked" ELSE "sleep"
  /\ last_wev' = [ev |-> "check_state"]
  /\ UNCHANGED <<credentials, connection_state_, last_error_, retry_num_,
                 ip_address_, event_bits, init_ret, radio, srv_listening,
                 srv_sessions>>
  /\ UNCHANGED nonWifiVars

\* app_main: telnet_server::launch(23); a failure puts the chip to deep sleep.
LaunchServer(ok) ==
  /\ w_pc = "checked"
  /\ srv_listening' = ok
  /\ w_pc' = IF ok THEN "serving" ELSE "sleep"
  /\ last_wev' = [ev |-> "launch_server"]
  /\ UNCHANGED <<credentials, connection_state_, last_error_, retry_num_,
                 ip_address_, event_bits, init_ret, radio, srv_sessions>>
  /\ UNCHANGED nonWifiVars

\* server_task: accept() returns a connection, which the network delivers
\* only while the station is associated.
SrvAccept ==
  /\ srv_listening
  /\ radio = "up"
  /\ srv_sessions < MaxSrvSessions
  /\ srv_sessions' = srv_sessions + 1
  /\ last_wev' = [ev |-> "accept"]
  /\ UNCHANGED <<w_pc, credentials, connection_state_, last_error_,
                 retry_num_, ip_address_, event_bits, init_ret, radio,
                 srv_listening>>
  /\ UNCHANGED nonWifiVars

\* client_task: recv() reports the end of the connection.
SrvClientGone ==
  /\ srv_sessions > 0
  /\ srv_sessions' = srv_sessions - 1
  /\ last_wev' = [ev |-> "client_gone"]
  /\ UNCHANGED <<w_pc, credentials, connection_state_, last_error_,
                 retry_num_, ip_address_, event_bits, init_ret, radio,
                 srv_listening>>
  /\ UNCHANGED nonWifiVars

WifiNext ==
  \/ InitSta
  \/ StaStart
  \/ \E reason \in Reasons : StaDisconnected(reason)
  \/ GotIp
  \/ WaitReturn
  \/ CheckLaunch
  \/ CheckState
  \/ \E ok \in BOOLEAN : LaunchServer(ok)
  \/ SrvAccept
  \/ SrvClientGone

WifiSpec == WifiInit /\ [][WifiNext]_vars

(***************************************************************************)
(* Claims about the link layer and the server                              *)
(***************************************************************************)

\* C15: the server accepts no connection before the link layer has reported
\* interface-up with an address acquired, and when a link-down event has been
\* handled the server holds no session and is not accepting.
C15_ServesOnlyWhileLinkUp ==
  /\ srv_listening => ip_address_ # "null"
  /\ last_wev.ev = "STA_DISCONNECTED" =>
       /\ ~srv_listening
       /\ srv_sessions = 0


\* C20: the Controller reports FAILED only when the connection has failed
\* after WIFI_MAXIMUM_RETRY retries or the credentials were rejected; after a
\* disconnect event for which a retry is still issued the state is not
\* FAILED.
C20_FailedOnlyAfterRetries ==
  /\ connection_state_ = "FAILED" =>
       \/ last_error_ = "INVALID_CREDENTIALS"
       \/ "WIFI_FAIL_BIT" \in event_bits
  /\ (last_wev.ev = "STA_DISCONNECTED" /\ last_wev.retried) =>
       connection_state_ # "FAILED"


(***************************************************************************)
(* Part IV: nvs_factory::Factory called from several threads               *)
(***************************************************************************)

nonNvsVars == <<tcpVars, sessVars, wifiVars, codecVars, consoleVars>>

NvsInit ==
  TcpIdle /\ SessIdle /\ WifiIdle /\ CodecIdle /\ ConsoleIdle /\ NvsIdle

\* what the first nvs_flash_init() of the sequence returns
FirstInit ==
  {"ESP_OK", "ESP_ERR_NVS_NO_FREE_PAGES", "ESP_ERR_NVS_NEW_VERSION_FOUND",
   "ESP_ERR_NO_MEM"}

\* what nvs_flash_init() returns after the partition was erased
SecondInit == {"ESP_OK", "ESP_ERR_NO_MEM"}

\* is_initialized()
is_initialized == init_result_ = "ESP_OK" /\ ~deinitialized_

\* what a call leaves in nvs_last when it returns
Returned(op, t, ret) ==
  [op |-> op, thread |-> t, ret |-> ret, is_initialized |-> is_initialized,
   flash |-> flash]

\* a thread enters initialize() or deinitialize()
Call(t, op) ==
  /\ th_pc[t] = "idle"
  /\ nvs_calls < MaxCalls
  /\ nvs_calls' = nvs_calls + 1
  /\ th_pc' = [th_pc EXCEPT ![t] = IF op = "initialize" THEN "init_once"
                                   ELSE "deinit_check"]
  /\ UNCHANGED <<init_flag_, deinit_flag_, init_result_, deinitialized_,
                 flash, attempts, th_ret, nvs_last>>
  /\ UNCHANGED nonNvsVars

\* std::call_once lets every caller through at once, whatever the flag says.
InitOnceUnguarded(t) ==
  /\ th_pc[t] = "init_once"
  /\ IF init_flag_ = "fresh"
       THEN /\ init_flag_' = "running"
            /\ th_pc' = [th_pc EXCEPT ![t] = "init_flash"]
       ELSE /\ init_flag_' = init_flag_
            /\ th_pc' = [th_pc EXCEPT ![t] = "init_load"]
  /\ UNCHANGED <<deinit_flag_, init_result_, deinitialized_, flash, attempts,
                 th_ret, nvs_calls, nvs_last>>
  /\ UNCHANGED nonNvsVars

\* std::call_once(init_flag_, ...): the first caller runs the callable, a
\* caller that arrives while it runs waits, a later caller passes.
InitOnce(t) ==
  /\ th_pc[t] = "init_once"
  /\ init_flag_ # "running"
  /\ IF init_flag_ = "fresh"
       THEN /\ init_flag_' = "running"
            /\ th_pc' = [th_pc EXCEPT ![t] = "init_flash"]
       ELSE /\ init_flag_' = init_flag_
            /\ th_pc' = [th_pc EXCEPT ![t] = "init_load"]
  /\ UNCHANGED <<deinit_flag_, init_result_, deinitialized_, flash, attempts,
                 th_ret, nvs_calls, nvs_last>>
  /\ UNCHANGED nonNvsVars

\* The initialization sequence: nvs_flash_init(), and on a truncated
\* partition nvs_flash_erase() and nvs_flash_init() again.  A failed erase
\* ends the program in ESP_ERROR_CHECK: no thread takes another step.
InitFlash(t, first, erased, second) ==
  /\ th_pc[t] = "init_flash"
  /\ LET truncated == first \in {"ESP_ERR_NVS_NO_FREE_PAGES",
                                 "ESP_ERR_NVS_NEW_VERSION_FOUND"}
         ret == IF truncated THEN second ELSE first
     IN IF truncated /\ ~erased
          THEN /\ th_pc' = [u \in Threads |-> "aborted"]
               /\ UNCHANGED <<flash, attempts, th_ret>>
          ELSE /\ th_pc' = [th_pc EXCEPT ![t] = "init_store"]
               /\ flash' = (ret = "ESP_OK")
               /\ attempts' = Append(attempts, ret)
               /\ th_ret' = [th_ret EXCEPT ![t] = ret]
  /\ UNCHANGED <<init_flag_, deinit_flag_, init_result_, deinitialized_,
                 nvs_calls, nvs_last>>
  /\ UNCHANGED nonNvsVars

\* init_result_.store(ret), and the callable returns.
InitStore(t) ==
  /\ th_pc[t] = "init_store"
  /\ init_result_' = th_ret[t]
  /\ init_flag_' = "done"
  /\ th_pc' = [th_pc EXCEPT ![t] = "init_load"]
  /\ UNCHANGED <<deinit_flag_, deinitialized_, flash, attempts, th_ret,
                 nvs_calls, nvs_last>>
  /\ UNCHANGED nonNvsVars

\* return init_result_.load()
InitLoad(t) ==
  /\ th_pc[t] = "init_load"
  /\ nvs_last' = Returned("initialize", t, init_result_)
  /\ th_pc' = [th_pc EXCEPT ![t] = "idle"]
  /\ UNCHANGED <<init_flag_, deinit_flag_, init_result_, deinitialized_,
                 flash, attempts, th_ret, nvs_calls>>
  /\ UNCHANGED nonNvsVars

\* deinitialize(): nothing to do unless initialization succeeded; otherwise
\* the local ret starts as ESP_OK.
DeinitCheck(t) ==
  /\ th_pc[t] = "deinit_check"
  /\ IF init_result_ # "ESP_OK"
       THEN /\ nvs_last' = Returned("deinitialize", t, "ESP_OK")
            /\ th_pc' = [th_pc EXCEPT ![t] = "idle"]
            /\ th_ret' = th_ret
       ELSE /\ nvs_last' = nvs_last
            /\ th_pc' = [th_pc EXCEPT ![t] = "deinit_once"]
            /\ th_ret' = [th_ret EXCEPT ![t] = "ESP_OK"]
  /\ UNCHANGED <<init_flag_, deinit_flag_, init_result_, deinitialized_,
                 flash, attempts, nvs_calls>>
  /\ UNCHANGED nonNvsVars

\* std::call_once(deinit_flag_, ...)
DeinitOnce(t) ==
  /\ th_pc[t] = "deinit_once"
  /\ deinit_flag_ # "running"
  /\ IF deinit_flag_ = "fresh"
       THEN /\ deinit_flag_' = "running"
            /\ th_pc' = [th_pc EXCEPT ![t] = "deinit_flash"]
       ELSE /\ deinit_flag_' = deinit_flag_
            /\ th_pc' = [th_pc EXCEPT ![t] = "deinit_return"]
  /\ UNCHANGED <<init_flag_, init_result_, deinitialized_, flash, attempts,
                 th_ret, nvs_calls, nvs_last>>
  /\ UNCHANGED nonNvsVars

\* The callable of deinitialize(): ret = nvs_flash_deinit(); success is
\* recorded in deinitialized_, a failure only in the caller's ret.
DeinitFlash(t, ok) ==
  /\ th_pc[t] = "deinit_flash"
  /\ th_ret' = [th_ret EXCEPT ![t] = IF ok THEN "ESP_OK" ELSE "ESP_FAIL"]
  /\ flash' = IF ok THEN FALSE ELSE flash
  /\ deinitialized_' = IF ok THEN TRUE ELSE deinitialized_
  /\ deinit_flag_' = "done"
  /\ th_pc' = [th_pc EXCEPT ![t] = "deinit_return"]
  /\ UNCHANGED <<init_flag_, init_result_, attempts, nvs_calls, nvs_last>>
  /\ UNCHANGED nonNvsVars

\* return ret
DeinitReturn(t) ==
  /\ th_pc[t] = "deinit_return"
  /\ nvs_last' = Returned("deinitialize", t, th_ret[t])
  /\ th_pc' = [th_pc EXCEPT ![t] = "idle"]
  /\ UNCHANGED <<init_flag_, deinit_flag_, init_result_, deinitialized_,
                 flash, attempts, th_ret, nvs_calls>>
  /\ UNCHANGED nonNvsVars

NvsNext ==
  \/ \E t \in Threads, op \in {"initialize", "deinitialize"} : Call(t, op)
  \/ \E t \in Threads : InitOnce(t)
  \/ \E t \in Threads, first \in FirstInit, erased \in BOOLEAN,
        second \in SecondInit : InitFlash(t, first, erased, second)
  \/ \E t \in Threads : InitStore(t)
  \/ \E t \in Threads : InitLoad(t)
  \/ \E t \in Threads : DeinitCheck(t)
  \/ \E t \in Threads : DeinitOnce(t)
  \/ \E t \in Threads, ok \in BOOLEAN : DeinitFlash(t, ok)
  \/ \E t \in Threads : DeinitReturn(t)

NvsSpec == NvsInit /\ [][NvsNext]_vars

(***************************************************************************)
(* Claims about the NVS Factory                                            *)
(***************************************************************************)

\* the thread that runs the initialization sequence has not stored its result
BeforeStore ==
  \/ init_flag_ = "fresh"
  \/ \E t \in Threads : th_pc[t] \in {"init_flash", "init_store"}

C17_State ==
  /\ Len(attempts) <= 1
  /\ BeforeStore => init_result_ = "ESP_ERR_INVALID_STATE"
  /\ nvs_last.op = "initialize" =>
       /\ Len(attempts) = 1
       /\ nvs_last.ret = attempts[1]

\* the stored result changes once, to the result of the attempt
C17_Step ==
  init_result_' # init_result_ =>
    /\ init_result_ = "ESP_ERR_INVALID_STATE"
    /\ Len(attempts) = 1
    /\ init_result_' = attempts[1]

C18_OkMeansInitialized ==
  (nvs_last.op = "initialize" /\ nvs_last.ret = "ESP_OK") =>
    nvs_last.is_initialized

\* C19: a deinitialize() call that returns ESP_OK leaves NVS not initialized,
\* also when an earlier deinitialize() has failed.
C19_OkMeansDeinitialized ==
  (nvs_last.op = "deinitialize" /\ nvs_last.ret = "ESP_OK") =>
    ~nvs_last.is_initialized


(***************************************************************************)
(* Part V: the Wire Codec.  The message layouts are the structs of         *)
(* usbip_defs.hpp; encode and decode follow the codec contract: network    *)
(* byte order, fixed layouts, a payload after the SUBMIT headers.          *)
(***************************************************************************)

VERSION == 273
OP_REQ_DEVLIST == 32773
OP_REP_DEVLIST == 5
OP_REQ_IMPORT == 32771
OP_REP_IMPORT == 3
CMD_SUBMIT == 1
RET_SUBMIT == 3
CMD_UNLINK == 2
RET_UNLINK == 4
DIR_OUT == 0
DIR_IN == 1

\* char path[256], scaled
PathLen == 4
\* char bus_id[32], scaled
BusIdLen == 3
\* device_interface_t interfaces[4]
NumInterfaces == 4
\* uint8_t padding[24] of cmd_unlink_t and ret_unlink_t
UnlinkPadding == 24
\* sizeof(op_header_t)
OpHeaderLen == 8
\* sizeof(xfer_header_t)
XferHeaderLen == 20
\* sizeof(cmd_submit_t) and sizeof(ret_submit_t) without the payload
SubmitLen == 48
\* sizeof(iso_packet_descriptor_t)
IsoLen == 16
\* sizeof(device_descriptor_t) with the scaled strings
DescLen == PathLen + BusIdLen + 24

\* the configured maximum of transfer_buffer_length
MaxTransferLen == 2

Zeros(n) == [i \in 1..n |-> 0]

\* an integer as w bytes, most significant first
ToBE(v, w) == [i \in 1..w |-> (v \div (256 ^ (w - i))) % 256]

\* bytes read least significant first
FromLE(bs) ==
  LET RECURSIVE le(_)
      le(s) == IF s = <<>> THEN 0 ELSE s[1] + 256 * le(Tail(s))
  IN le(bs)

\* bytes read most significant first
FromBE(bs) ==
  LET RECURSIVE be(_)
      be(s) == IF s = <<>> THEN 0
               ELSE 256 * be(SubSeq(s, 1, Len(s) - 1)) + s[Len(s)]
  IN be(bs)

Take(bs, off, n) == SubSeq(bs, off + 1, off + n)

\* the integer of width w at offset off
Field(bs, off, w) == FromBE(Take(bs, off, w))

\* a string in a char array of width w, padded with NUL
EncStr(s, w) == s \o Zeros(w - Len(s))

\* the string of a char array: what precedes the first NUL
DecStr(bs) ==
  LET nul == {i \in 1..Len(bs) : bs[i] = 0}
  IN IF nul = {} THEN bs
     ELSE SubSeq(bs, 1, (CHOOSE i \in nul : \A j \in nul : i <= j) - 1)

EncDescriptor(d) ==
  EncStr(d.path, PathLen) \o EncStr(d.bus_id, BusIdLen)
    \o ToBE(d.bus_num, 4) \o ToBE(d.dev_num, 4) \o ToBE(d.speed, 4)
    \o ToBE(d.vendor_id, 2) \o ToBE(d.product_id, 2)
    \o ToBE(d.device_bcd, 2)
    \o <<d.device_class, d.device_subclass, d.device_protocol,
         d.configuration_value, d.configuration_num, d.interface_num>>

DecDescriptor(bs, off) ==
  LET o == off + PathLen + BusIdLen
  IN [path |-> DecStr(Take(bs, off, PathLen)),
      bus_id |-> DecStr(Take(bs, off + PathLen, BusIdLen)),
      bus_num |-> Field(bs, o, 4),
      dev_num |-> Field(bs, o + 4, 4),
      speed |-> Field(bs, o + 8, 4),
      vendor_id |-> Field(bs, o + 12, 2),
      product_id |-> Field(bs, o + 14, 2),
      device_bcd |-> Field(bs, o + 16, 2),
      device_class |-> bs[o + 19],
      device_subclass |-> bs[o + 20],
      device_protocol |-> bs[o + 21],
      configuration_value |-> bs[o + 22],
      configuration_num |-> bs[o + 23],
      interface_num |-> bs[o + 24]]

EncInterface(f) ==
  <<f.interface_class, f.interface_subclass, f.interface_protocol, 0>>

DecInterface(bs, off) ==
  [interface_class |-> bs[off + 1],
   interface_subclass |-> bs[off + 2],
   interface_protocol |-> bs[off + 3]]

EncInterfaces(fs) ==
  LET RECURSIVE cat(_)
      cat(k) == IF k = 0 THEN <<>> ELSE cat(k - 1) \o EncInterface(fs[k])
  IN cat(NumInterfaces)

EncIso(ds) ==
  LET RECURSIVE cat(_)
      cat(k) == IF k = 0 THEN <<>>
                ELSE cat(k - 1) \o ToBE(ds[k].offset, 4)
                       \o ToBE(ds[k].length, 4)
                       \o ToBE(ds[k].actual_length, 4)
                       \o ToBE(ds[k].status, 4)
  IN cat(Len(ds))

DecIso(bs, off, n) ==
  [k \in 1..n |->
     LET o == off + (k - 1) * IsoLen
     IN [offset |-> Field(bs, o, 4),
         length |-> Field(bs, o + 4, 4),
         actual_length |-> Field(bs, o + 8, 4),
         status |-> Field(bs, o + 12, 4)]]

EncOpHeader(code, m) ==
  ToBE(VERSION, 2) \o ToBE(code, 2) \o ToBE(m.status, 4)

EncXferHeader(command, m) ==
  ToBE(command, 4) \o ToBE(m.seq_num, 4) \o ToBE(m.device_id, 4)
    \o ToBE(m.direction, 4) \o ToBE(m.endpoint, 4)

\* encode(Message) -> bytes
encode(m) ==
  CASE m.shape = "OP_REQ_DEVLIST" -> EncOpHeader(OP_REQ_DEVLIST, m)
    [] m.shape = "OP_REP_DEVLIST" ->
         EncOpHeader(OP_REP_DEVLIST, m) \o ToBE(m.exported_count, 4)
           \o EncDescriptor(m.descriptor) \o EncInterfaces(m.interfaces)
    [] m.shape = "OP_REQ_IMPORT" ->
         EncOpHeader(OP_REQ_IMPORT, m) \o EncStr(m.bus_id, BusIdLen)
    [] m.shape = "OP_REP_IMPORT" ->
         EncOpHeader(OP_REP_IMPORT, m) \o EncDescriptor(m.descriptor)
    [] m.shape = "CMD_SUBMIT" ->
         EncXferHeader(CMD_SUBMIT, m) \o ToBE(m.transfer_flags, 4)
           \o ToBE(m.transfer_buffer_length, 4) \o ToBE(m.start_frame, 4)
           \o ToBE(m.number_of_packets, 4) \o ToBE(m.interval, 4)
           \o ToBE(m.setup[1], 4) \o ToBE(m.setup[2], 4)
           \o m.payload \o EncIso(m.iso)
    [] m.shape = "RET_SUBMIT" ->
         EncXferHeader(RET_SUBMIT, m) \o ToBE(m.status, 4)
           \o ToBE(m.actual_length, 4) \o ToBE(m.start_frame, 4)
           \o ToBE(m.number_of_packets, 4) \o ToBE(m.error_count, 4)
           \o Zeros(8) \o m.payload \o EncIso(m.iso)
    [] m.shape = "CMD_UNLINK" ->
         EncXferHeader(CMD_UNLINK, m) \o ToBE(m.unlink_seqnum, 4)
           \o Zeros(UnlinkPadding)
    [] m.shape = "RET_UNLINK" ->
         EncXferHeader(RET_UNLINK, m) \o ToBE(m.status, 4)
           \o Zeros(UnlinkPadding)

NeedMoreBytes == [result |-> "NeedMoreBytes"]

Malformed == [result |-> "Malformed"]

Decoded(m, n) == [result |-> "Message", msg |-> m, consumed |-> n]

\* a message of fixed length n, once n bytes are buffered
Fixed(bs, n, m) == IF Len(bs) < n THEN NeedMoreBytes ELSE Decoded(m, n)

\* the operation stage: op_header_t, then the body the code names
DecodeOp(bs) ==
  LET code == Field(bs, 2, 2)
      status == Field(bs, 4, 4)
  IN IF Len(bs) < OpHeaderLen THEN NeedMoreBytes
     ELSE CASE code = OP_REQ_DEVLIST ->
                 Decoded([shape |-> "OP_REQ_DEVLIST", status |-> status],
                         OpHeaderLen)
            [] code = OP_REP_DEVLIST ->
                 LET n == OpHeaderLen + 4 + DescLen + 4 * NumInterfaces
                 IN IF Len(bs) < n THEN NeedMoreBytes
                    ELSE Decoded(
                      [shape |-> "OP_REP_DEVLIST", status |-> status,
                       exported_count |-> Field(bs, OpHeaderLen, 4),
                       descriptor |-> DecDescriptor(bs, OpHeaderLen + 4),
                       interfaces |->
                         [k \in 1..NumInterfaces |->
                            DecInterface(bs, OpHeaderLen + 4 + DescLen
                                               + 4 * (k - 1))]], n)
            [] code = OP_REQ_IMPORT ->
                 LET n == OpHeaderLen + BusIdLen
                 IN IF Len(bs) < n THEN NeedMoreBytes
                    ELSE Decoded(
                      [shape |-> "OP_REQ_IMPORT", status |-> status,
                       bus_id |-> DecStr(Take(bs, OpHeaderLen, BusIdLen))],
                      n)
            [] code = OP_REP_IMPORT ->
                 LET n == OpHeaderLen + DescLen
                 IN IF Len(bs) < n THEN NeedMoreBytes
                    ELSE Decoded(
                      [shape |-> "OP_REP_IMPORT", status |-> status,
                       descriptor |-> DecDescriptor(bs, OpHeaderLen)], n)
            [] OTHER -> Malformed

\* the length of the transfer buffer that follows a SUBMIT header: the
\* length field when the data travels in this message's direction, nothing
\* otherwise
PayloadLen(command, direction, length) ==
  IF (command = CMD_SUBMIT /\ direction = DIR_OUT)
       \/ (command = RET_SUBMIT /\ direction = DIR_IN)
    THEN length ELSE 0

\* the transmission stage: xfer_header_t, then the body the command names
DecodeXfer(bs) ==
  LET command == Field(bs, 0, 4)
      direction == Field(bs, 12, 4)
      hdr == [seq_num |-> Field(bs, 4, 4), device_id |-> Field(bs, 8, 4),
              direction |-> direction, endpoint |-> Field(bs, 16, 4)]
      length == Field(bs, 24, 4)
      packets == Field(bs, 32, 4)
      data == PayloadLen(command, direction, length)
      body == Len(bs) - SubmitLen
  IN IF Len(bs) < XferHeaderLen THEN NeedMoreBytes
     ELSE IF direction \notin {DIR_OUT, DIR_IN} THEN Malformed
     ELSE CASE command \in {CMD_SUBMIT, RET_SUBMIT} ->
                 IF body < 0 THEN NeedMoreBytes
                 ELSE IF body < data THEN NeedMoreBytes
                 ELSE IF (body - data) \div IsoLen < packets
                   THEN NeedMoreBytes
                 ELSE LET n == SubmitLen + data + packets * IsoLen
                          tail == [payload |-> Take(bs, SubmitLen, data),
                                   iso |-> DecIso(bs, SubmitLen + data,
                                                  packets)]
                      IN IF command = CMD_SUBMIT
                           THEN Decoded(
                             hdr @@ tail @@
                             [shape |-> "CMD_SUBMIT",
                              transfer_flags |-> Field(bs, 20, 4),
                              transfer_buffer_length |-> length,
                              start_frame |-> Field(bs, 28, 4),
                              number_of_packets |-> packets,
                              interval |-> Field(bs, 36, 4),
                              setup |-> <<Field(bs, 40, 4),
                                          Field(bs, 44, 4)>>], n)
                           ELSE Decoded(
                             hdr @@ tail @@
                             [shape |-> "RET_SUBMIT",
                              status |-> Field(bs, 20, 4),
                              actual_length |-> length,
                              start_frame |-> Field(bs, 28, 4),
                              number_of_packets |-> packets,
                              error_count |-> Field(bs, 36, 4)], n)
            [] command = CMD_UNLINK ->
                 Fixed(bs, XferHeaderLen + 4 + UnlinkPadding,
                       hdr @@ [shape |-> "CMD_UNLINK",
                               unlink_seqnum |-> Field(bs, 20, 4)])
            [] command = RET_UNLINK ->
                 Fixed(bs, XferHeaderLen + 4 + UnlinkPadding,
                       hdr @@ [shape |-> "RET_UNLINK",
                               status |-> Field(bs, 20, 4)])
            [] OTHER -> Malformed

\* decode(bytes) -> (Message, bytes_consumed) | NeedMoreBytes | Malformed.
\* The operation stage starts with the protocol version, the transmission
\* stage with a command word.
decode(bs) ==
  IF Len(bs) < 4 THEN NeedMoreBytes
  ELSE IF Field(bs, 0, 2) = VERSION THEN DecodeOp(bs)
  ELSE DecodeXfer(bs)


\* Field values: fill 0 is all zero, fill 2 the largest value, fill 1 a value
\* whose bytes all differ and that differs from field to field (k).
Fills == 0..2

U32(f, k) == CASE f = 0 -> 0 [] f = 1 -> 16909060 + k [] OTHER -> 2147483647

U16(f, k) == CASE f = 0 -> 0 [] f = 1 -> 258 + k [] OTHER -> 65535

U8(f, k) == CASE f = 0 -> 0 [] f = 1 -> 16 + k [] OTHER -> 255

\* strings that fit their char array
BusIdStrings == {<<>>, <<49>>, <<49, 45, 50>>}

PathStrings == {<<>>, <<47, 49, 45>>}

\* transfer buffers of every length up to the maximum
Buffers == UNION {[1..n -> {0, 255}] : n \in 0..MaxTransferLen}

DeviceDescriptors ==
  {[path |-> p, bus_id |-> b, bus_num |-> U32(f, 1), dev_num |-> U32(f, 2),
    speed |-> s, vendor_id |-> U16(f, 1), product_id |-> U16(f, 2),
    device_bcd |-> U16(f, 3), device_class |-> U8(f, 1),
    device_subclass |-> U8(f, 2), device_protocol |-> U8(f, 3),
    configuration_value |-> U8(f, 4), configuration_num |-> U8(f, 5),
    interface_num |-> U8(f, 6)] :
     p \in PathStrings, b \in BusIdStrings, f \in Fills, s \in 0..2}

DeviceInterfaces(f) ==
  [k \in 1..NumInterfaces |->
     [interface_class |-> U8(f, k), interface_subclass |-> U8(f, k + 4),
      interface_protocol |-> U8(f, k + 8)]]

\* iso_packet_descriptor_t, as many as number_of_packets says
IsoDescriptors(f, n) ==
  [k \in 1..n |-> [offset |-> U32(f, 10 + k), length |-> U32(f, 20 + k),
                   actual_length |-> U32(f, 30 + k),
                   status |-> U32(f, 40 + k)]]

XferHeaders ==
  {[seq_num |-> U32(f, 1), device_id |-> U32(f, 2), direction |-> d,
    endpoint |-> U32(f, 3)] : f \in Fills, d \in {DIR_OUT, DIR_IN}}

\* the transfer buffer and its length field: the buffer is present, with
\* the length the field gives, when the data travels with the message
BufferAndLength(withData) ==
  IF withData THEN {[payload |-> b, length |-> Len(b)] : b \in Buffers}
  ELSE {[payload |-> <<>>, length |-> U32(f, 0)] : f \in Fills}

Messages ==
  {[shape |-> "OP_REQ_DEVLIST", status |-> s] : s \in 0..1}
  \cup
  {[shape |-> "OP_REP_DEVLIST", status |-> s, exported_count |-> U32(f, 0),
    descriptor |-> d, interfaces |-> DeviceInterfaces(f)] :
     s \in 0..1, f \in Fills, d \in DeviceDescriptors}
  \cup
  {[shape |-> "OP_REQ_IMPORT", status |-> s, bus_id |-> b] :
     s \in 0..1, b \in BusIdStrings}
  \cup
  {[shape |-> "OP_REP_IMPORT", status |-> s, descriptor |-> d] :
     s \in 0..1, d \in DeviceDescriptors}
  \cup
  UNION {
    {h @@ [shape |-> "CMD_SUBMIT", transfer_flags |-> U32(f, 4),
           transfer_buffer_length |-> bl.length,
           start_frame |-> U32(f, 5), number_of_packets |-> n,
           interval |-> U32(f, 6), setup |-> <<U32(f, 7), U32(f, 8)>>,
           payload |-> bl.payload, iso |-> IsoDescriptors(f, n)] :
       bl \in BufferAndLength(h.direction = DIR_OUT), f \in Fills,
       n \in 0..1} : h \in XferHeaders}
  \cup
  UNION {
    {h @@ [shape |-> "RET_SUBMIT", status |-> U32(f, 4),
           actual_length |-> bl.length, start_frame |-> U32(f, 5),
           number_of_packets |-> n, error_count |-> U32(f, 6),
           payload |-> bl.payload, iso |-> IsoDescriptors(f, n)] :
       bl \in BufferAndLength(h.direction = DIR_IN), f \in Fills,
       n \in 0..1} : h \in XferHeaders}
  \cup
  {h @@ [shape |-> "CMD_UNLINK", unlink_seqnum |-> U32(f, 4)] :
     h \in XferHeaders, f \in Fills}
  \cup
  {h @@ [shape |-> "RET_UNLINK", status |-> U32(f, 4)] :
     h \in XferHeaders, f \in Fills}

\* what may follow a message in the stream: nothing, or the start of the
\* next message
Followers == {<<>>, <<0, 0>>, <<1, 17, 128, 5, 0>>}

nonCodecVars == <<tcpVars, sessVars, wifiVars, nvsVars, consoleVars>>

CodecInit ==
  /\ TcpIdle
  /\ SessIdle
  /\ WifiIdle
  /\ NvsIdle
  /\ ConsoleIdle
  /\ cdc_msg \in Messages
  /\ cdc_bytes = <<>>
  /\ cdc_out = [result |-> "none"]
  /\ cdc_pc = "start"

\* encode(cdc_msg) goes into the stream, followed by whatever comes next
Encode(follow) ==
  /\ cdc_pc = "start"
  /\ cdc_bytes' = encode(cdc_msg) \o follow
  /\ cdc_pc' = "encoded"
  /\ UNCHANGED <<cdc_msg, cdc_out>>
  /\ UNCHANGED nonCodecVars

\* decode is applied to the stream
Decode ==
  /\ cdc_pc = "encoded"
  /\ cdc_out' = decode(cdc_bytes)
  /\ cdc_pc' = "decoded"
  /\ UNCHANGED <<cdc_msg, cdc_bytes>>
  /\ UNCHANGED nonCodecVars

CodecNext ==
  \/ \E follow \in Followers : Encode(follow)
  \/ Decode

CodecSpec == CodecInit /\ [][CodecNext]_vars

(***************************************************************************)
(* Claims about the Wire Codec                                             *)
(***************************************************************************)

\* C16: for each of the eight message shapes and all valid field values,
\* including an empty payload and a payload of the maximum
\* transfer_buffer_length, decode(encode(m)) returns m and consumes exactly
\* the encoded length, whatever follows in the stream.
C16_RoundTrip ==
  cdc_pc = "decoded" =>
    /\ cdc_out.result = "Message"
    /\ cdc_out.msg = cdc_msg
    /\ cdc_out.consumed = Len(encode(cdc_msg))

\* a CMD_SUBMIT with a transfer buffer of the maximum length and one
\* isochronous packet descriptor has been decoded from a stream that goes on
C16_Witness ==
  /\ cdc_pc = "decoded"
  /\ cdc_msg.shape = "CMD_SUBMIT"
  /\ cdc_msg.direction = DIR_OUT
  /\ Len(cdc_msg.payload) = MaxTransferLen
  /\ cdc_msg.transfer_buffer_length = MaxTransferLen
  /\ cdc_msg.number_of_packets = 1
  /\ cdc_msg.seq_num = U32(1, 1)
  /\ Len(cdc_bytes) > SubmitLen + MaxTransferLen + IsoLen
  /\ cdc_out.consumed = SubmitLen + MaxTransferLen + IsoLen


\* C21: init_sta returns ESP_OK only if a got-IP event occurred during the
\* call, ESP_FAIL only if the retries were exhausted, and
\* ESP_ERR_INVALID_ARG, with Wi-Fi never started and the last error
\* INVALID_CREDENTIALS, exactly when the SSID or the password is empty.
C21_InitStaResult ==
  /\ init_ret = "ESP_OK" =>
       /\ ip_address_ # "null"
       /\ "WIFI_CONNECTED_BIT" \in event_bits
  /\ init_ret = "ESP_FAIL" =>
       /\ "WIFI_FAIL_BIT" \in event_bits
       /\ retry_num_ = WIFI_MAXIMUM_RETRY
       /\ radio = "down"
  /\ init_ret = "ESP_ERR_INVALID_ARG" <=>
       (credentials # "valid" /\ w_pc # "boot")
  /\ init_ret = "ESP_ERR_INVALID_ARG" =>
       /\ radio = "off"
       /\ event_bits = {}
       /\ last_error_ = "INVALID_CREDENTIALS"
  /\ init_ret \in {"none", "ESP_OK", "ESP_FAIL", "ESP_ERR_INVALID_ARG"}

\* init_sta has returned ESP_FAIL after the last retry failed to authenticate
C21_Witness ==
  /\ init_ret = "ESP_FAIL"
  /\ last_wev.ev = "launch_returned"
  /\ last_error_ = "AUTHENTICATION_FAILED"
  /\ retry_num_ = WIFI_MAXIMUM_RETRY

\* C22: whenever the connection state is not CONNECTED, get_ip_address()
\* returns no address, also after a disconnect that follows a successful
\* connection.
C22_NoAddressUnlessConnected ==
  connection_state_ # "CONNECTED" => ip_address_ = "null"


(***************************************************************************)
(* Claims about the idle sweep of TcpServer                                *)
(***************************************************************************)

\* the slot that holds socket s
SlotOf(cl, s) == CHOOSE i \in 1..Len(cl) : cl[i].sock = s

\* what one step may do to the slots that exist before it
C29_Step ==
  \A i \in 1..Len(clients_) :
    LET c == clients_[i]
        d == clients_'[i]
    IN \* the sweep closes a slot only if it is active and timed out
       /\ (last_op'.op = "periodic" /\ d # c) =>
            /\ c.active
            /\ ~d.active
            /\ (now - c.last_activity) > client_timeout_seconds_
            /\ d.last_activity = c.last_activity
       \* last_activity changes only with an accept into the slot or a read
       \* of more than zero bytes on it
       /\ d.last_activity # c.last_activity =>
            \/ /\ last_op'.op = "accept"
               /\ ~c.active
               /\ d.active
               /\ d.sock = last_op'.sock
               /\ d.last_activity = now
            \/ /\ last_op'.op = "data"
               /\ last_op'.rlen > 0
               /\ last_op'.sock = c.sock
               /\ c.active
               /\ d.last_activity = now
       \* a read of more than zero bytes refreshes it
       /\ (last_op'.op = "data" /\ last_op'.rlen > 0 /\ last_op'.sock = c.sock
             /\ c.active) =>
            d.last_activity = now

\* an accepted connection starts with last_activity at the time of the accept
C29_Accepted ==
  (last_op'.op = "accept" /\ last_op'.res = "ok"
     /\ last_op'.sock \in open_socks') =>
    LET d == clients_'[SlotOf(clients_', last_op'.sock)]
    IN d.active /\ d.last_activity = now

\* C29: the idle sweep closes a connection only if it is active and more
\* than client_timeout_seconds_ have passed since its last_activity;
\* last_activity is set by the accept and refreshed exactly by a read of
\* more than zero bytes, so a connection with data inside the timeout
\* survives the sweep.
C29_SweepOnlyIdle == [][C29_Step /\ C29_Accepted]_vars

\* a sweep has closed an idle connection and left open one whose
\* last_activity a read had refreshed
C29_Witness ==
  /\ last_op.op = "periodic"
  /\ last_cleanup = now
  /\ Len(clients_) = 2
  /\ ~clients_[1].active
  /\ clients_[1].sock \notin open_socks
  /\ (now - clients_[1].last_activity) > client_timeout_seconds_
  /\ clients_[2].active
  /\ clients_[2].sock \in open_socks
  /\ clients_[2].last_activity = now


(***************************************************************************)
(* Part VI: the telnet console.  telnet_server::launch, the server task    *)
(* and the client tasks of TelnetServer, and the UsbCdcManager calls the   *)
(* commands make.  One step of a task is one pass of its loop; a pass that *)
(* leaves the loop includes what the task does after the loop.             *)
(***************************************************************************)

\* UsbCdcManager::close_device
close_device(u) ==
  IF ~u.device_open_ THEN u
  ELSE [u EXCEPT !.cdc_device_ = FALSE, !.device_open_ = FALSE]

\* open_device without the test of initialized_
open_device_unchecked(u, ok) ==
  LET c == close_device(u)
  IN  IF ok
        THEN [ret |-> "ESP_OK", driver |-> TRUE,
              u |-> [c EXCEPT !.cdc_device_ = TRUE, !.device_open_ = TRUE]]
        ELSE [ret |-> "ESP_ERR_NOT_FOUND", u |-> c, driver |-> TRUE]

\* UsbCdcManager::open_device; ok is what cdc_acm_host_open answers.
\* driver tells whether cdc_acm_host_open was called.
open_device(u, ok) ==
  IF ~u.initialized_
    THEN [ret |-> "ESP_ERR_INVALID_STATE", u |-> u, driver |-> FALSE]
    ELSE LET c == close_device(u)
         IN  IF ok
               THEN [ret |-> "ESP_OK", driver |-> TRUE,
                     u |-> [c EXCEPT !.cdc_device_ = TRUE,
                                     !.device_open_ = TRUE]]
               ELSE [ret |-> "ESP_ERR_NOT_FOUND", u |-> c, driver |-> TRUE]

\* UsbCdcManager::send_data; ok is what cdc_acm_host_data_tx_blocking
\* answers.  driver tells whether the transmit was attempted.
send_data(u, ok) ==
  IF ~u.device_open_ \/ ~u.cdc_device_
    THEN [ret |-> "ESP_ERR_INVALID_STATE", driver |-> FALSE]
    ELSE [ret |-> IF ok THEN "ESP_OK" ELSE "ESP_ERR_TIMEOUT", driver |-> TRUE]

\* What one whole call of UsbCdcManager::init() can leave behind: "ok" with
\* the usb_lib task inside its loop, "ok_task_ended" when the task ran its
\* loop test before initialized_ was stored, "fail" when an install or the
\* task creation failed, "fail_halt" when cdc_acm_host_install failed after
\* the task had deleted itself and vTaskDelete of its handle halted the
\* firmware.
InitOutcomes == {"ok", "ok_task_ended", "fail", "fail_halt"}

\* usb_cdc_manager::init() as one call
usb_init(u, o) ==
  IF u.initialized_ THEN u
  ELSE IF o = "ok"
    THEN [u EXCEPT !.initialized_ = TRUE, !.host_installed = TRUE,
                   !.usb_lib_task_handle_ = "looping"]
  ELSE IF o = "ok_task_ended"
    THEN [u EXCEPT !.initialized_ = TRUE, !.host_installed = TRUE,
                   !.usb_lib_task_handle_ = "ended"]
  ELSE IF o = "fail_halt"
    THEN [u EXCEPT !.aborted = TRUE, !.usb_lib_task_handle_ = "ended",
                   !.host_installed = TRUE]
  ELSE u

\* The commands a line can be; "help" stands for every command that changes
\* no state of the server (help, status, uptime, free, echo, list, unknown).
Lines == {"help", "serial", "exit", "quit"}

\* lines one recv can deliver
MaxLines == 2

RECURSIVE SeqsUpTo(_, _)
SeqsUpTo(S, n) ==
  IF n = 0 THEN {<<>>}
  ELSE LET shorter == SeqsUpTo(S, n - 1)
       IN  shorter \cup {Append(q, x) : q \in shorter, x \in S}

\* what recv returns: 0 (the peer closed), -1 (an error), or complete lines
RecvResults ==
  {[n |-> 0, lines |-> <<>>], [n |-> -1, lines |-> <<>>]}
    \cup {[n |-> Len(q), lines |-> q] : q \in SeqsUpTo(Lines, MaxLines) \ {<<>>}}

\* what the environment answers during one pass of a client task
Answers ==
  [init : InitOutcomes, open : BOOLEAN, send : BOOLEAN]

\* TelnetServer::handle_client_data for one line; c is the ClientInfo, u the
\* UsbCdcManager.
handle_client_data(c, u, input, a) ==
  IF input = "serial"
    THEN LET u1 == IF ~u.initialized_ THEN usb_init(u, a.init) ELSE u
         IN  IF u1.initialized_
               THEN LET r == open_device(u1, a.open)
                    IN  IF r.ret = "ESP_OK"
                          THEN [c |-> [c EXCEPT !.usb_forwarding_mode = TRUE],
                                u |-> [r.u EXCEPT !.data_callback_ = TRUE]]
                          ELSE [c |-> c, u |-> r.u]
               ELSE [c |-> c, u |-> u1]
  ELSE IF input = "exit" /\ c.usb_forwarding_mode
    THEN [c |-> [c EXCEPT !.usb_forwarding_mode = FALSE],
          u |-> close_device(u)]
  ELSE IF input = "quit"
    THEN [c |-> [c EXCEPT !.active = FALSE], u |-> u]
  ELSE [c |-> c, u |-> u]

\* client_task, command mode: every line of the buffer goes to
\* handle_client_data, one after the other.
RECURSIVE HandleLines(_, _, _, _)
HandleLines(c, u, lines, a) ==
  IF lines = <<>> \/ u.aborted THEN [c |-> c, u |-> u]
  ELSE LET r == handle_client_data(c, u, Head(lines), a)
       IN  HandleLines(r.c, r.u, Tail(lines), a)

\* TelnetServer::find_available_client_slot; 0 stands for -1
find_available_client_slot(cs) ==
  IF \E i \in Slots : ~cs[i].active
    THEN CHOOSE i \in Slots :
           /\ ~cs[i].active
           /\ \A j \in Slots : ~cs[j].active => i <= j
    ELSE 0

\* TelnetServer::remove_client(i) called by the task `caller' (a slot for
\* its client task, 0 for the server task).  vTaskDelete of the caller's own
\* handle ends the caller, so nothing after it runs; vTaskDelete of the
\* handle of a task that has already deleted itself is undefined: it
\* returns, or (halt) the firmware stops there.
remove_client(t, cs, i, caller, halt) ==
  LET c == cs[i]
      closed == [c EXCEPT !.socket_fd = IF @ = "open" THEN "closed" ELSE @]
  IN  IF ~c.active THEN [t |-> t, cs |-> cs]
      ELSE IF c.task_handle = "alive" /\ caller = i
        THEN [t |-> t,
              cs |-> [cs EXCEPT ![i] = [closed EXCEPT !.task_handle = "deleted"]]]
      ELSE IF c.task_handle = "deleted" /\ halt
        THEN [t |-> [t EXCEPT !.aborted = TRUE],
              cs |-> [cs EXCEPT ![i] = closed]]
      ELSE [t |-> [t EXCEPT !.client_count_ = @ - 1],
            cs |-> [cs EXCEPT ![i] = [FreeSlot EXCEPT !.session = c.session]]]

\* what start() can meet: success, socket() failing, a call between socket()
\* and listen() failing, xTaskCreate failing
StartResults == {"ok", "socket_failed", "setup_failed", "task_failed"}

\* TelnetServer::start on a new TelnetServer
start(t, o) ==
  IF t.running_ THEN [ret |-> "ESP_OK", t |-> t]
  ELSE IF o = "ok"
    THEN [ret |-> "ESP_OK",
          t |-> [t EXCEPT !.running_ = TRUE, !.server_socket_ = TRUE,
                          !.server_task_handle_ = TRUE,
                          !.listening = @ + 1, !.server_tasks = @ + 1]]
  ELSE [ret |-> "ESP_FAIL", t |-> t]

\* the firmware has not been halted
Alive == ~telnet.aborted /\ ~usb.aborted

\* open client sockets
OpenSockets ==
  telnet.lost_sockets
    + Cardinality({i \in Slots : tn_clients[i].socket_fd = "open"})

nonConsoleVars == <<tcpVars, sessVars, wifiVars, nvsVars, codecVars>>

\* A telnet console before app_main has called telnet_server::launch.
TelnetInit ==
  /\ TcpIdle
  /\ SessIdle
  /\ WifiIdle
  /\ NvsIdle
  /\ CodecIdle
  /\ ConsoleStart

\* One step of the telnet console: the TelnetServer, its slots and the
\* UsbCdcManager after the step, and what the step was.
TelnetStep(t, cs, u, op) ==
  /\ console' = [console EXCEPT !.telnet = t, !.tn_clients = cs,
                                !.usb = u, !.tn_last = op]
  /\ UNCHANGED nonConsoleVars

\* telnet_server::launch(port)
Launch(o) ==
  /\ Alive
  /\ IF telnet.instance
       THEN TelnetStep(telnet, tn_clients, usb,
                       TelnetOp("launch", 0, "ESP_OK", <<>>, <<>>, FALSE,
                                telnet.client_count_))
       ELSE LET r == start([NoServer EXCEPT
                               !.instance = TRUE,
                               !.lost_sockets = telnet.lost_sockets], o)
            IN  TelnetStep(r.t, [i \in Slots |-> FreeSlot], usb,
                           TelnetOp("launch", 0, r.ret, <<>>, <<>>, FALSE, 0))

\* server_task: one pass of the loop in which accept returned a socket.
\* task_ok is what xTaskCreate answers.
Accept(task_ok, halt) ==
  /\ Alive
  /\ telnet.instance
  /\ telnet.running_
  /\ telnet.server_tasks = 1
  /\ OpenSockets < MaxSockets
  /\ LET i == find_available_client_slot(tn_clients)
         count == telnet.client_count_
     IN  IF i = 0
           THEN TelnetStep(telnet, tn_clients, usb,
                           TelnetOp("accept", 0, "rejected", <<>>, <<>>,
                                    FALSE, count))
           ELSE LET old == tn_clients[i]
                    t1 == [telnet EXCEPT
                             !.client_count_ = @ + 1,
                             !.lost_sockets =
                               IF old.socket_fd = "open" THEN @ + 1 ELSE @]
                    c1 == [old EXCEPT !.socket_fd = "open", !.active = TRUE,
                                      !.usb_forwarding_mode = FALSE,
                                      !.session = "open"]
                IN  IF task_ok
                      THEN TelnetStep(
                             t1,
                             [tn_clients EXCEPT
                                ![i] = [c1 EXCEPT !.task_handle = "alive"]],
                             usb,
                             TelnetOp("accept", i, "connected", <<>>, <<>>,
                                      FALSE, count))
                      ELSE LET r == remove_client(
                                      t1, [tn_clients EXCEPT
                                             ![i] = [c1 EXCEPT !.session = "ended"]],
                                      i, 0, halt)
                           IN  TelnetStep(r.t, r.cs, usb,
                                          TelnetOp("accept", i, "no_task",
                                                   <<>>, <<>>, FALSE, count))

\* client_task of slot i: one pass of the loop, from recv to the loop test,
\* and, when the loop is left, remove_client and vTaskDelete(nullptr).
ClientRecv(i, r, a) ==
  /\ Alive
  /\ telnet.instance
  /\ tn_clients[i].task_handle = "alive"
  /\ LET c == tn_clients[i]
         count == telnet.client_count_
         ended(cs) == [cs EXCEPT ![i].session = "ended",
                                 ![i].task_handle = "deleted"]
     IN  IF r.n <= 0
           THEN LET rm == remove_client(telnet, tn_clients, i, i, FALSE)
                IN  TelnetStep(rm.t, ended(rm.cs), usb,
                               TelnetOp("recv", i,
                                        IF r.n = 0 THEN "peer_closed"
                                                   ELSE "recv_error",
                                        <<>>, <<>>, c.usb_forwarding_mode,
                                        count))
         ELSE IF c.usb_forwarding_mode
           THEN LET s == send_data(usb, a.send)
                IN  TelnetStep(telnet,
                               [tn_clients EXCEPT ![i].usb_forwarding_mode =
                                                    (s.ret = "ESP_OK")],
                               usb,
                               TelnetOp("recv", i, s.ret, r.lines,
                                        IF s.driver THEN r.lines ELSE <<>>,
                                        TRUE, count))
         ELSE LET h == HandleLines(c, usb, r.lines, a)
              IN  IF h.c.active
                    THEN TelnetStep(telnet, [tn_clients EXCEPT ![i] = h.c],
                                    h.u,
                                    TelnetOp("recv", i, "handled", r.lines,
                                             <<>>, FALSE, count))
                    ELSE LET rm == remove_client(
                                     telnet, [tn_clients EXCEPT ![i] = h.c],
                                     i, i, FALSE)
                         IN  TelnetStep(rm.t, ended(rm.cs), h.u,
                                        TelnetOp("recv", i, "quit", r.lines,
                                                 <<>>, FALSE, count))

TelnetNext ==
  \/ \E o \in StartResults : Launch(o)
  \/ \E task_ok \in BOOLEAN, halt \in BOOLEAN : Accept(task_ok, halt)
  \/ \E i \in Slots, r \in RecvResults, a \in Answers : ClientRecv(i, r, a)

TelnetSpec == TelnetInit /\ [][TelnetNext]_vars

\* every task that can run does run
TelnetLiveSpec == TelnetSpec /\ WF_consoleVars(TelnetNext)


(***************************************************************************)
(* Claims about the telnet console                                         *)
(***************************************************************************)

\* the slots whose active flag is true
ActiveClients == {i \in Slots : tn_clients[i].active}

\* C23: after every completed operation (connection, peer disconnect,
\* receive error, 'quit') get_client_count() equals the number of client
\* slots whose active flag is true and is at most MAX_CLIENTS.
C23_CountIsActiveSlots ==
  /\ telnet.client_count_ = Cardinality(ActiveClients)
  /\ telnet.client_count_ <= TELNET_MAX_CLIENTS

\* C24: whenever launch() has returned ESP_OK the server is running and
\* exactly one listening socket and one server task exist, whatever launch()
\* calls came before.
C24_LaunchOkMeansRunning ==
  (tn_last.op = "launch" /\ tn_last.ret = "ESP_OK")
    => /\ telnet.instance /\ telnet.running_
       /\ telnet.listening = 1
       /\ telnet.server_tasks = 1

\* C25: when a client in USB forwarding mode has sent the line 'exit', it
\* is back in command mode, the USB device is closed and the line was not
\* handed to the USB device.
C25_ExitLeavesForwarding ==
  (tn_last.op = "recv" /\ tn_last.forwarding /\ tn_last.data = <<"exit">>)
    => /\ ~tn_clients[tn_last.slot].usb_forwarding_mode
       /\ ~usb.device_open_
       /\ tn_last.sent = <<>>

\* the slot has been given back: its socket is closed and forgotten and its
\* active flag is false
Released(i) ==
  /\ ~tn_clients[i].active
  /\ tn_clients[i].socket_fd = "-1"

\* C27: after the session of a slot has ended (peer disconnect, receive
\* error or 'quit') the slot is eventually released and the client count is
\* the number of sessions still open, so that MAX_CLIENTS clients fit again.
\* A run in which the firmware was halted is not held against the claim.
C27_SlotEventuallyReleased ==
  \A i \in Slots :
    (tn_clients[i].session = "ended")
      ~> \/ ~Alive
         \/ /\ Released(i)
            /\ telnet.client_count_ =
                 Cardinality({j \in Slots : tn_clients[j].session = "open"})


(***************************************************************************)
(* Part VII: UsbCdcManager.  init() is two steps, up to xTaskCreate and    *)
(* from there to its return, so that the usb_lib task it creates can run   *)
(* in between; the other calls are one step each.                          *)
(***************************************************************************)

\* A UsbCdcManager on which nothing has been called.
UsbInit ==
  /\ TcpIdle
  /\ SessIdle
  /\ WifiIdle
  /\ NvsIdle
  /\ CodecIdle
  /\ ConsoleStart

\* what the first half of init() can meet: success, xSemaphoreCreateBinary,
\* usb_host_install or xTaskCreate failing
InitResults == {"ok", "no_sem", "host_failed", "task_failed"}

\* One step of the UsbCdcManager: the manager after the step, and what the
\* step was.
UsbStep(u, call) ==
  /\ console' = [console EXCEPT !.usb = u, !.usb_last = call]
  /\ UNCHANGED nonConsoleVars

\* init() up to and including xTaskCreate(usb_lib_task, ...)
InitBegin(r) ==
  /\ ~usb.aborted
  /\ usb.i_pc = "idle"
  /\ IF usb.initialized_
       THEN UsbStep(usb, UsbCall("init", "ESP_OK", FALSE))
     ELSE IF r = "ok"
       THEN UsbStep([usb EXCEPT !.host_installed = TRUE,
                                !.usb_lib_task_handle_ = "ready",
                                !.i_pc = "created"],
                    UsbCall("init", "pending", FALSE))
     ELSE UsbStep(usb, UsbCall("init",
                               IF r = "host_failed" THEN "ESP_FAIL"
                                                    ELSE "ESP_ERR_NO_MEM",
                               FALSE))

\* init() from cdc_acm_host_install to its return.  When the install fails
\* init() deletes the usb_lib task through its handle: if that task has
\* already deleted itself the call is undefined and returns or (halt) stops
\* the firmware.
InitFinish(cdc_ok, halt) ==
  /\ ~usb.aborted
  /\ usb.i_pc = "created"
  /\ IF cdc_ok
       THEN UsbStep([usb EXCEPT !.initialized_ = TRUE, !.i_pc = "idle"],
                    UsbCall("init", "ESP_OK", FALSE))
     ELSE IF usb.usb_lib_task_handle_ = "ended" /\ halt
       THEN UsbStep([usb EXCEPT !.aborted = TRUE],
                    UsbCall("init", "halted", FALSE))
     ELSE UsbStep([usb EXCEPT !.usb_lib_task_handle_ = "nullptr",
                              !.host_installed = FALSE, !.i_pc = "idle"],
                  UsbCall("init", "ESP_FAIL", FALSE))

\* usb_lib_task: its first test of the loop condition
LibTaskStart ==
  /\ ~usb.aborted
  /\ usb.usb_lib_task_handle_ = "ready"
  /\ UsbStep([usb EXCEPT !.usb_lib_task_handle_ =
                           IF usb.initialized_ THEN "looping" ELSE "ended"],
             UsbCall("usb_lib_task", "started", FALSE))

\* usb_lib_task: one pass of the loop, usb_host_lib_handle_events and the
\* next test of the loop condition
LibTaskLoop ==
  /\ ~usb.aborted
  /\ usb.usb_lib_task_handle_ = "looping"
  /\ UsbStep([usb EXCEPT !.usb_lib_task_handle_ =
                           IF usb.initialized_ THEN "looping" ELSE "ended"],
             UsbCall("usb_lib_task", "events", FALSE))

\* usb_cdc_manager::deinit(): UsbCdcManager::deinit, then the manager is
\* destroyed and the next call makes a new one.  vTaskDelete of the handle
\* of a usb_lib task that has deleted itself is undefined, as in InitFinish.
Deinit(halt) ==
  /\ ~usb.aborted
  /\ usb.i_pc = "idle"
  /\ UsbStep(IF ~usb.initialized_
               THEN NoManager
             ELSE IF usb.usb_lib_task_handle_ = "ended" /\ halt
               THEN [close_device(usb) EXCEPT !.aborted = TRUE]
             ELSE NoManager,
             UsbCall("deinit", "ESP_OK", FALSE))

\* usb_cdc_manager::open_device(vid, pid, instance)
OpenDevice(ok) ==
  /\ ~usb.aborted
  /\ LET r == open_device(usb, ok)
     IN  UsbStep(r.u, UsbCall("open_device", r.ret, r.driver))

\* usb_cdc_manager::close_device()
CloseDevice ==
  /\ ~usb.aborted
  /\ UsbStep(close_device(usb),
             UsbCall("close_device", "ESP_OK", usb.device_open_))

\* usb_cdc_manager::send_data(data, len)
SendData(ok) ==
  /\ ~usb.aborted
  /\ LET r == send_data(usb, ok)
     IN  UsbStep(usb, UsbCall("send_data", r.ret, r.driver))

\* handle_event(CDC_ACM_HOST_DEVICE_DISCONNECTED) for the open device
DeviceDisconnected ==
  /\ ~usb.aborted
  /\ usb.device_open_
  /\ UsbStep(IF usb.cdc_device_
               THEN [usb EXCEPT !.cdc_device_ = FALSE, !.device_open_ = FALSE]
               ELSE usb,
             UsbCall("handle_event", "disconnected", FALSE))

\* usb_cdc_manager::set_data_callback(callback); set tells whether the
\* std::function given holds a target
SetDataCallback(set) ==
  /\ ~usb.aborted
  /\ UsbStep([usb EXCEPT !.data_callback_ = set],
             UsbCall("set_data_callback", "none", FALSE))

\* handle_rx: the driver delivers data received from the open device
HandleRx ==
  /\ ~usb.aborted
  /\ usb.device_open_
  /\ usb.cdc_device_
  /\ UsbStep(usb, UsbCall("handle_rx",
                          IF usb.data_callback_ THEN "delivered" ELSE "dropped",
                          FALSE))

UsbNext ==
  \/ \E r \in InitResults : InitBegin(r)
  \/ \E cdc_ok \in BOOLEAN, halt \in BOOLEAN : InitFinish(cdc_ok, halt)
  \/ LibTaskStart
  \/ LibTaskLoop
  \/ \E halt \in BOOLEAN : Deinit(halt)
  \/ \E ok \in BOOLEAN : OpenDevice(ok)
  \/ CloseDevice
  \/ \E ok \in BOOLEAN : SendData(ok)
  \/ DeviceDisconnected
  \/ \E set \in BOOLEAN : SetDataCallback(set)
  \/ HandleRx

UsbSpec == UsbInit /\ [][UsbNext]_vars

(***************************************************************************)
(* Claims about the UsbCdcManager                                          *)
(***************************************************************************)

\* a call made in the wrong state was rejected and changed nothing
Rejected ==
  /\ usb_last'.ret = "ESP_ERR_INVALID_STATE"
  /\ ~usb_last'.driver
  /\ usb' = usb

C26_Step ==
  /\ (usb_last'.op = "open_device" /\ ~usb.initialized_) => Rejected
  /\ (usb_last'.op = "send_data" /\ ~usb.device_open_) => Rejected

\* C26: open_device() on a manager that is not initialized, and send_data()
\* while no device is open, return ESP_ERR_INVALID_STATE without calling the
\* driver and without changing the manager (device_open_ stays false).
C26_WrongStateRejected == [][C26_Step]_vars

\* open_device() was rejected while init() had installed the USB host and
\* created the usb_lib task but not yet stored initialized_
C26_Witness ==
  /\ usb_last.op = "open_device"
  /\ usb_last.ret = "ESP_ERR_INVALID_STATE"
  /\ usb.i_pc = "created"
  /\ usb.host_installed
  /\ ~usb.device_open_

\* C28: once init() has returned ESP_OK (and until deinit()) the usb_lib
\* task is alive: created and about to enter its loop, or inside it.
C28_LibTaskAliveWhileInitialized ==
  (usb.initialized_ /\ usb.i_pc = "idle")
    => usb.usb_lib_task_handle_ \in {"ready", "looping"}

=============================================================================
